---------------------------- MODULE Spec2Model ----------------------------
(***************************************************************************)
(* Carrier Integration Core of the Shiprocket fulfillment plugin.          *)
(*                                                                         *)
(* SpecManager  : ShiprocketClientManager (client/manager.ts): the cached  *)
(*                token, the single-slot refresh handle                    *)
(*                (tokenRefreshPromise), the login exchange and the 401    *)
(*                response interceptor, run by several concurrent callers  *)
(*                on one JavaScript event loop.                            *)
(* SpecTracking : ShiprocketTrackingModuleService.upsertByAwb fed by the   *)
(*                webhook (push) route and the admin sync (pull) route.    *)
(***************************************************************************)
EXTENDS Integers, Sequences, FiniteSets, TLC

(***************************************************************************)
(* Bounds of the model.                                                    *)
(***************************************************************************)
NumCallers == 2
MaxLogins == 2
MaxDays == 15
NumHandlers == 2
MaxUpserts == 2
MaxItems == 2
\* The capacity of the estimate cache (1000 in the code, scaled down), how many
\* times the clock advances while estimates are examined, and the longest list
\* of couriers a serviceability answer carries.
maxCacheSize == 2
MaxTicks == 2
MaxCouriers == 3
\* The requests the rate limiter accepts in one window (30 in the code, scaled
\* down), the number of tracked identifiers that forces a cleanup (10000 in the
\* code, scaled down), and how many times the clock advances while the limiter
\* is examined.
maxRequests == 2
limiterCacheSize == 2
MaxLimiterTicks == 5

Callers == 1..NumCallers
Exchanges == 1..MaxLogins
Handlers == 1..NumHandlers

(***************************************************************************)
(* Program constants (manager.ts).                                         *)
(***************************************************************************)
TOKEN_REFRESH_BUFFER_DAYS == 8
DELIVERY_ESTIMATE_CACHE_HOURS == 4
ExpiryBufferMs == 60000
MsPerDay == 24 * 60 * 60 * 1000

VARIABLES
    now,                 \* Date.now(), in ms since the manager was built
    cachedToken,         \* this.cachedToken
    authHeader,          \* axios.defaults.headers.common["Authorization"] (0: unset)
    tokenRefreshPromise, \* this.tokenRefreshPromise (0: null, e: promise of exchange e)
    loginCount,          \* number of POST /auth/login requests issued so far
    promise,             \* per exchange: state of doRefreshToken()'s promise, the token
                         \* cached when it started, whether the response carried a token
    reactions,           \* per exchange: callers awaiting it, in registration order
    loginInFlight,       \* exchanges whose /auth/login request has no response yet
    microtasks,          \* the microtask queue: callers whose await is ready to resume
    pc,                  \* per caller: "idle", "awaitRefresh", "awaitResponse"
    op,                  \* per caller: the operation in progress, or the last one
    joined,              \* per caller: the exchange whose promise it awaits / awaited
    owner,               \* per caller: it assigned tokenRefreshPromise (runs the finally)
    returned,            \* the operation that returned in the last step, if any
    req,                 \* per caller: the outbound request (config._retry, attempts, ...)
    store,               \* shiprocket_tracking table: its rows, row i has id i
    upsert,              \* per request handler: the upsertByAwb call in progress
    upserts,             \* number of upsertByAwb calls started so far (bounded)
    upserted,            \* the upsertByAwb call that returned in the last step, if any
    ship,                \* the createFulfillment / cancelFulfillment call: its
                         \* position, arguments, intermediate results and outcome
    calls,               \* the network calls that call has issued, in order
    deliveryEstimateCache, \* this.deliveryEstimateCache: its entries, in insertion order
    deliveryPreference,  \* this.deliveryPreference
    estimate,            \* per caller: the getDeliveryEstimate call in progress
    lookups,             \* number of getDeliveryEstimate calls started so far (bounded)
    estimated,           \* the getDeliveryEstimate call that returned in the last step
    webhookToken,        \* process.env.SHIPROCKET_WEBHOOK_TOKEN
    hook,                \* per request handler: the webhook request it is serving
    events,              \* the calls of eventBus.emit made so far, in order
    responded,           \* the webhook response sent in the last step, if any
    requests,            \* RateLimiter.requests: identifier -> {count, windowStart}
    limited,             \* the rate-limited GET answered in the last step, if any
    recent,              \* per identifier: the instants of its latest accepted requests
    track,               \* the public tracking query in progress, or the last one
    thrown               \* the failed carrier call of the last step and what it threw

managerVars == <<now, cachedToken, authHeader, tokenRefreshPromise, loginCount,
                 promise, reactions, loginInFlight, microtasks, pc, op, joined, owner,
                 returned, req>>
trackingVars == <<store, upsert, upserts, upserted>>
shipmentVars == <<ship, calls>>
estimateVars == <<deliveryEstimateCache, deliveryPreference, estimate, lookups, estimated>>
hookVars == <<webhookToken, hook, events, responded>>
limiterVars == <<requests, limited, recent>>
frontVars == <<limiterVars, track, thrown>>
vars == <<managerVars, trackingVars, shipmentVars, estimateVars, hookVars, frontVars>>

(***************************************************************************)
(* Token lifecycle                                                         *)
(***************************************************************************)
NullToken == [present |-> FALSE, token |-> 0, expiresAt |-> 0]

\* expiresAt: Date.now() + TOKEN_REFRESH_BUFFER_DAYS * 24 * 60 * 60 * 1000
TokenExpiry(t) == t + TOKEN_REFRESH_BUFFER_DAYS * MsPerDay

IsTokenValid_NoBuffer(tok, t) ==
    IF ~tok.present THEN FALSE ELSE t <= tok.expiresAt - ExpiryBufferMs

\* isTokenValid(): false without a token, else Date.now() < expiresAt - 60000
IsTokenValid(tok, t) ==
    IF ~tok.present THEN FALSE ELSE t < tok.expiresAt - ExpiryBufferMs

RefreshInProgress_NoMutex == FALSE

\* `if (this.tokenRefreshPromise)` at the head of refreshToken()
RefreshInProgress == tokenRefreshPromise # 0

\* `if (this.tokenRefreshPromise)` in ensureToken()
EnsureSeesRefresh == tokenRefreshPromise # 0

Settled(e) == promise[e].state \in {"fulfilled", "rejected"}

\* An outbound request: config._retry, the Authorization header of the attempt in
\* flight, and bookkeeping: attempts sent, refreshToken() calls made on its behalf,
\* and whether the re-sent attempt carried another token than the first.
NoReq == [retry |-> FALSE, attempts |-> 0, refreshes |-> 0, auth |-> 0, renewed |-> FALSE]

\* What `returned` holds when the last step ended no operation.
NoReturn == [op |-> "none", joined |-> 0, owner |-> FALSE, req |-> NoReq, outcome |-> "none"]

\* The clock jumps to the last instant at which a token obtained now is still valid,
\* or to the first instant at which it no longer is.
TickSteps == {TokenExpiry(0) - ExpiryBufferMs - 1, TokenExpiry(0) - ExpiryBufferMs}

(***************************************************************************)
(* Awaiting a promise.  A caller that awaits a pending promise is appended *)
(* to its reaction list; when the promise settles the reactions are queued *)
(* as microtasks in registration order.  Awaiting an already settled       *)
(* promise queues the continuation at once.                                *)
(***************************************************************************)
AwaitPromise(p, e, own) ==
    /\ pc' = [pc EXCEPT ![p] = "awaitRefresh"]
    /\ joined' = [joined EXCEPT ![p] = e]
    /\ owner' = [owner EXCEPT ![p] = own]
    /\ IF Settled(e)
       THEN /\ microtasks' = Append(microtasks, p)
            /\ UNCHANGED reactions
       ELSE /\ reactions' = [reactions EXCEPT ![e] = Append(@, p)]
            /\ UNCHANGED microtasks

\* doRefreshToken() up to its first await, as called from refreshToken():
\*   this.tokenRefreshPromise = this.doRefreshToken(); await this.tokenRefreshPromise
StartLogin(p) ==
    /\ loginCount < MaxLogins
    /\ LET e == loginCount + 1 IN
       /\ loginCount' = e
       /\ tokenRefreshPromise' = e
       /\ promise' = [promise EXCEPT ![e] = [state |-> "pending", before |-> cachedToken,
                                             gotToken |-> FALSE]]
       /\ loginInFlight' = loginInFlight \cup {e}
       /\ AwaitPromise(p, e, TRUE)

\* refreshToken(): wait for the refresh in progress, or start one.
RefreshToken(p) ==
    IF RefreshInProgress
    THEN /\ AwaitPromise(p, tokenRefreshPromise, FALSE)
         /\ UNCHANGED <<loginCount, tokenRefreshPromise, promise, loginInFlight>>
    ELSE StartLogin(p)

EnsureTokenSlow_NoWait(p) == StartLogin(p)

\* ensureToken(), reached only when the token is not valid.
EnsureTokenSlow(p) ==
    IF EnsureSeesRefresh
    THEN /\ AwaitPromise(p, tokenRefreshPromise, FALSE)
         /\ UNCHANGED <<loginCount, tokenRefreshPromise, promise, loginInFlight>>
    ELSE RefreshToken(p)

EnsureFastPath_AnyToken == cachedToken.present

\* `if (this.isTokenValid()) return` in ensureToken()
EnsureFastPath == IsTokenValid(cachedToken, now)

(***************************************************************************)
(* Operations of the callers.  JavaScript runs each turn to completion:    *)
(* when a promise settles, its reactions are queued and all of them run    *)
(* before any code that is queued later, so a caller starts an operation   *)
(* only when no reaction is waiting in the microtask queue.                *)
(***************************************************************************)
\* getAxios(): await this.ensureToken(); return this.axios
GetAxios(p) ==
    /\ pc[p] = "idle"
    /\ microtasks = << >>
    /\ IF EnsureFastPath
       THEN /\ returned' = [NoReturn EXCEPT !.op = "getAxios", !.outcome = "ok"]
            /\ UNCHANGED <<pc, op, joined, owner, loginCount, tokenRefreshPromise,
                           promise, loginInFlight, reactions, microtasks>>
       ELSE /\ op' = [op EXCEPT ![p] = "getAxios"]
            /\ returned' = NoReturn
            /\ EnsureTokenSlow(p)
    /\ UNCHANGED <<now, cachedToken, authHeader, req, trackingVars, shipmentVars, estimateVars, frontVars, hookVars>>

ForceRefreshToken_OnlyIfInvalid(p) ==
    /\ pc[p] = "idle"
    /\ microtasks = << >>
    /\ IF EnsureFastPath
       THEN /\ returned' = [NoReturn EXCEPT !.op = "forceRefresh", !.outcome = "ok"]
            /\ UNCHANGED <<pc, op, joined, owner, loginCount, tokenRefreshPromise,
                           promise, loginInFlight, reactions, microtasks>>
       ELSE /\ op' = [op EXCEPT ![p] = "forceRefresh"]
            /\ returned' = NoReturn
            /\ RefreshToken(p)
    /\ UNCHANGED <<now, cachedToken, authHeader, req, trackingVars, shipmentVars, estimateVars, frontVars, hookVars>>

\* forceRefreshToken(): await this.refreshToken()
ForceRefreshToken(p) ==
    /\ pc[p] = "idle"
    /\ microtasks = << >>
    /\ op' = [op EXCEPT ![p] = "forceRefresh"]
    /\ returned' = NoReturn
    /\ RefreshToken(p)
    /\ UNCHANGED <<now, cachedToken, authHeader, req, trackingVars, shipmentVars, estimateVars, frontVars, hookVars>>

\* A non-login call on the shared axios instance (which only getAxios() hands out,
\* so a login has succeeded before); it carries the default Authorization header.
SendRequest(p) ==
    /\ pc[p] = "idle"
    /\ microtasks = << >>
    /\ authHeader # 0
    /\ pc' = [pc EXCEPT ![p] = "awaitResponse"]
    /\ op' = [op EXCEPT ![p] = "request"]
    /\ returned' = NoReturn
    /\ req' = [req EXCEPT ![p] = [retry |-> FALSE, attempts |-> 1, refreshes |-> 0,
                                   auth |-> authHeader, renewed |-> FALSE]]
    /\ UNCHANGED <<now, cachedToken, authHeader, tokenRefreshPromise, loginCount,
                   promise, reactions, loginInFlight, microtasks, joined, owner,
                   trackingVars, shipmentVars, estimateVars, frontVars, hookVars>>

(***************************************************************************)
(* Responses.  A response is an I/O event: it is handled in a new turn of  *)
(* the event loop, after the microtask queue of the previous turn has      *)
(* drained.                                                                *)
(***************************************************************************)
LoginOutcomes == {"token", "noToken", "http401", "httpError", "timeout"}
ResponseStatuses == {200, 401, 500}

\* The response interceptor's test: error.response?.status === 401 &&
\* !originalRequest._retry && !originalRequest.url?.includes("/auth/login")
ShouldRefreshAndRetry(status, retried, isLogin) ==
    status = 401 /\ ~retried /\ ~isLogin

LoginStatus(outcome) ==
    IF outcome = "http401" THEN 401 ELSE IF outcome = "httpError" THEN 500 ELSE 0

\* `if (!response.data?.token) throw` : only a response carrying a token succeeds
LoginSucceeds(outcome) == outcome = "token"

TokenAfterLogin_ClearsOnFailure(e, outcome) ==
    IF LoginSucceeds(outcome)
    THEN [present |-> TRUE, token |-> e, expiresAt |-> TokenExpiry(now)]
    ELSE NullToken

\* this.cachedToken after the response: replaced on success, left alone on failure
TokenAfterLogin(e, outcome) ==
    IF LoginSucceeds(outcome)
    THEN [present |-> TRUE, token |-> e, expiresAt |-> TokenExpiry(now)]
    ELSE cachedToken

\* axios.defaults.headers.common["Authorization"] after the response
HeaderAfterLogin(e, outcome) ==
    IF LoginSucceeds(outcome) THEN e ELSE authHeader

\* The promise of exchange e settles; its reactions become microtasks.
Settle(e, st, got) ==
    /\ promise' = [promise EXCEPT ![e].state = st, ![e].gotToken = got]
    /\ microtasks' = microtasks \o reactions[e]
    /\ reactions' = [reactions EXCEPT ![e] = << >>]

\* The response to POST /auth/login of exchange e arrives; the rest of
\* doRefreshToken() runs.
LoginResponse(e, outcome) ==
    /\ e \in loginInFlight
    /\ microtasks = << >>
    /\ loginInFlight' = loginInFlight \ {e}
    /\ IF ShouldRefreshAndRetry(LoginStatus(outcome), FALSE, TRUE)
       THEN \* the interceptor would await refreshToken(), that is this very promise
            UNCHANGED <<cachedToken, authHeader, promise, microtasks, reactions>>
       ELSE /\ cachedToken' = TokenAfterLogin(e, outcome)
            /\ authHeader' = HeaderAfterLogin(e, outcome)
            /\ Settle(e, IF LoginSucceeds(outcome) THEN "fulfilled" ELSE "rejected",
                      outcome = "token")
    /\ returned' = NoReturn
    /\ UNCHANGED <<now, tokenRefreshPromise, loginCount, pc, op, joined, owner,
                   req, trackingVars, shipmentVars, estimateVars, frontVars, hookVars>>

\* The caller's operation ends with outcome r; its bookkeeping is dropped.
Return(p, r) ==
    /\ pc' = [pc EXCEPT ![p] = "idle"]
    /\ op' = [op EXCEPT ![p] = "none"]
    /\ joined' = [joined EXCEPT ![p] = 0]
    /\ owner' = [owner EXCEPT ![p] = FALSE]
    /\ req' = [req EXCEPT ![p] = NoReq]
    /\ returned' = [op |-> op[p], joined |-> joined[p], owner |-> owner[p],
                    req |-> req[p], outcome |-> r]

MarkRetried_Forgets(r) == [r EXCEPT !.refreshes = @ + 1]

\* originalRequest._retry = true
MarkRetried(r) == [r EXCEPT !.retry = TRUE, !.refreshes = @ + 1]

\* The response to caller p's outbound request arrives and passes the interceptor.
RequestResponse(p, status) ==
    /\ pc[p] = "awaitResponse"
    /\ microtasks = << >>
    /\ IF ShouldRefreshAndRetry(status, req[p].retry, FALSE)
       THEN /\ req' = [req EXCEPT ![p] = MarkRetried(@)]
            /\ RefreshToken(p)
            /\ returned' = NoReturn
            /\ UNCHANGED op
       ELSE /\ Return(p, IF status = 200 THEN "ok" ELSE "error")
            /\ UNCHANGED <<loginCount, tokenRefreshPromise, promise, loginInFlight,
                           reactions, microtasks>>
    /\ UNCHANGED <<now, cachedToken, authHeader, trackingVars, shipmentVars, estimateVars, frontVars, hookVars>>

\* A refreshToken() without the finally.
HandleAfterAwait_Keeps(p) == tokenRefreshPromise

\* refreshToken()'s `finally { this.tokenRefreshPromise = null }`, run by the caller
\* that assigned the handle
HandleAfterAwait(p) == IF owner[p] THEN 0 ELSE tokenRefreshPromise

\* The continuation of the caller at the head of the microtask queue runs: the
\* awaited promise has settled.  The returns up the chain of async functions
\* (refreshToken -> ensureToken -> getAxios) touch no shared state and are taken
\* in the same step.
RunMicrotask ==
    /\ microtasks # << >>
    /\ LET p == Head(microtasks)
           ok == promise[joined[p]].state = "fulfilled"
       IN
       /\ microtasks' = Tail(microtasks)
       /\ tokenRefreshPromise' = HandleAfterAwait(p)
       /\ IF op[p] = "request" /\ ok /\ cachedToken.present
          THEN \* originalRequest.headers["Authorization"] = `Bearer ${token}`;
               \* return this.axios(originalRequest)
               /\ pc' = [pc EXCEPT ![p] = "awaitResponse"]
               /\ req' = [req EXCEPT ![p].attempts = @ + 1,
                                      ![p].renewed = (cachedToken.token # req[p].auth),
                                      ![p].auth = cachedToken.token]
               /\ returned' = NoReturn
               /\ UNCHANGED <<op, joined, owner>>
          ELSE Return(p, IF ok THEN "ok" ELSE "error")
    /\ UNCHANGED <<now, cachedToken, authHeader, loginCount, promise, reactions,
                   loginInFlight, trackingVars, shipmentVars, estimateVars, frontVars, hookVars>>

\* Time passes between two turns of the event loop.
Tick(d) ==
    /\ microtasks = << >>
    /\ now + d <= MaxDays * MsPerDay
    /\ now' = now + d
    /\ returned' = NoReturn
    /\ UNCHANGED <<cachedToken, authHeader, tokenRefreshPromise, loginCount, promise,
                   reactions, loginInFlight, microtasks, pc, op, joined, owner, req,
                   trackingVars, shipmentVars, estimateVars, frontVars, hookVars>>

ManagerInit ==
    /\ now = 0
    /\ cachedToken = NullToken
    /\ authHeader = 0
    /\ tokenRefreshPromise = 0
    /\ loginCount = 0
    /\ promise = [e \in Exchanges |-> [state |-> "none", before |-> NullToken,
                                     gotToken |-> FALSE]]
    /\ reactions = [e \in Exchanges |-> << >>]
    /\ loginInFlight = {}
    /\ microtasks = << >>
    /\ pc = [p \in Callers |-> "idle"]
    /\ op = [p \in Callers |-> "none"]
    /\ joined = [p \in Callers |-> 0]
    /\ owner = [p \in Callers |-> FALSE]
    /\ returned = NoReturn
    /\ req = [p \in Callers |-> NoReq]

\* No upsertByAwb call in progress; no call completed by the last step.
NoUpsert == [pc |-> "idle"]
NoUpserted == [kind |-> "none"]

TrackingIdle ==
    /\ store = << >>
    /\ upsert = [h \in Handlers |-> NoUpsert]
    /\ upserts = 0
    /\ upserted = NoUpserted

ManagerNext ==
    \/ \E p \in Callers : GetAxios(p)
    \/ \E p \in Callers : ForceRefreshToken(p)
    \/ \E p \in Callers : SendRequest(p)
    \/ \E e \in Exchanges, o \in LoginOutcomes : LoginResponse(e, o)
    \/ \E p \in Callers, s \in ResponseStatuses : RequestResponse(p, s)
    \/ RunMicrotask
    \/ \E d \in TickSteps : Tick(d)

\* No createFulfillment or cancelFulfillment call in progress or returned.
NoShip == [pc |-> "idle"]

ShipmentIdle ==
    /\ ship = NoShip
    /\ calls = << >>

\* No getDeliveryEstimate call made yet: the cache is empty. The preference is
\* the default one.
NoEstimate == [pc |-> "idle"]
NoEstimated == [via |-> "none"]

EstimateIdle ==
    /\ deliveryEstimateCache = << >>
    /\ estimate = [p \in Callers |-> NoEstimate]
    /\ lookups = 0
    /\ estimated = NoEstimated

DefaultPreference == deliveryPreference = "FAST"

\* No webhook request received yet.
NoHook == [pc |-> "idle"]
NoResponded == [status |-> 0]

HookIdle ==
    /\ hook = [h \in Handlers |-> NoHook]
    /\ events = << >>
    /\ responded = NoResponded

\* The callers of the storefront routes, by the identifier the limiter keys on.
Clients == {"ip1", "ip2"}

\* No storefront request received and no carrier call failed yet.
NoLimited == [client |-> "none"]
NoTrack == [pc |-> "idle"]
NoThrown == [call |-> "none"]

FrontIdle ==
    /\ requests = << >>
    /\ limited = NoLimited
    /\ recent = [c \in Clients |-> << >>]
    /\ track = NoTrack
    /\ thrown = NoThrown

\* SHIPROCKET_WEBHOOK_TOKEN as a string of characters ("": not set).
TokenConfigured == webhookToken = <<"k", "e", "y">>

InitManager ==
    /\ ManagerInit /\ TrackingIdle /\ ShipmentIdle
    /\ EstimateIdle /\ DefaultPreference /\ HookIdle /\ FrontIdle /\ TokenConfigured

SpecManager == InitManager /\ [][ManagerNext]_vars

\* The engine drains the microtask queue: a queued continuation does run.
SpecManagerLive == SpecManager /\ WF_vars(RunMicrotask)

(***************************************************************************)
(* JavaScript values of the tracking data                                  *)
(***************************************************************************)
Undef == [k |-> "undefined", v |-> 0]
Null == [k |-> "null", v |-> 0]
Str(x) == [k |-> "str", v |-> x]
Num(n) == [k |-> "num", v |-> n]
Bool(b) == [k |-> "bool", v |-> b]
Arr(items) == [k |-> "arr", v |-> items]
DateOf(t) == [k |-> "date", v |-> t]
Obj(x) == [k |-> "obj", v |-> x]
NaN == [k |-> "nan", v |-> 0]
\* The empty string; Str(x) is a string with characters.
EmptyStr == [k |-> "empty", v |-> 0]

\* JavaScript truthiness (an empty array, a Date and an object are truthy)
Truthy(x) ==
    CASE x.k \in {"undefined", "null", "nan", "empty"} -> FALSE
      [] x.k = "num" -> x.v # 0
      [] x.k = "bool" -> x.v
      [] OTHER -> TRUE

\* a || b
OrElse(a, b) == IF Truthy(a) THEN a ELSE b

\* Number(x) of a numeric field of the carrier's payload
ToNumber(x) == IF x.k = "num" THEN x ELSE NaN

\* A date string of the carrier: its format ("dmy": DD MM YYYY HH:mm:ss, "iso":
\* YYYY-MM-DD HH:mm:ss) and the instant it denotes.
DateStr(fmt, t) == Str([fmt |-> fmt, at |-> t])

\* parseDate of the webhook route: undefined for a missing string, else the
\* instant, for either format
ParseDate(x) == IF ~Truthy(x) THEN Undef ELSE DateOf(x.v.at)

\* new Date(str) of the sync route
NewDate(x) == DateOf(x.v.at)

IsDigit(c) == c \in {"0", "1", "2", "3", "4", "5", "6", "7", "8", "9"}

\* text.includes("-"), for a string given as the list of its characters
IncludesDash(chars) == \E i \in DOMAIN chars : chars[i] = "-"

\* text.split("-"): the pieces between the dashes, empty ones included
RECURSIVE SplitDash(_)
SplitDash(chars) ==
    IF ~IncludesDash(chars) THEN <<chars>>
    ELSE LET i == CHOOSE i \in DOMAIN chars :
                      chars[i] = "-" /\ \A j \in 1..(i - 1) : chars[j] # "-"
         IN <<SubSeq(chars, 1, i - 1)>> \o SplitDash(SubSeq(chars, i + 1, Len(chars)))

\* parts.join("-")
RECURSIVE JoinDash(_)
JoinDash(parts) ==
    IF Len(parts) = 0 THEN << >>
    ELSE IF Len(parts) = 1 THEN parts[1]
    ELSE parts[1] \o <<"-">> \o JoinDash(Tail(parts))

\* /^\d+$/.test(part)
AllDigits(part) == Len(part) > 0 /\ \A i \in DOMAIN part : IsDigit(part[i])

MedusaOrderId_FirstPart(x) ==
    IF Truthy(x) /\ IncludesDash(x.v) THEN Str(SplitDash(x.v)[1]) ELSE x

\* The webhook route's recovery of the host order id: when the id has a dash and
\* its last piece is made of digits only, the id without that piece.
MedusaOrderId(x) ==
    IF Truthy(x) /\ IncludesDash(x.v)
    THEN LET parts == SplitDash(x.v)
         IN IF AllDigits(parts[Len(parts)])
            THEN Str(JoinDash(SubSeq(parts, 1, Len(parts) - 1)))
            ELSE x
    ELSE x

(***************************************************************************)
(* The sync route's status table                                           *)
(***************************************************************************)
StatusCodes == {1, 6, 7, 8, 9, 13, 17, 18, 19, 20, 21}

statusMap(code) ==
    CASE code = 1 -> "AWB Assigned"
      [] code = 6 -> "Shipped"
      [] code = 7 -> "Delivered"
      [] code = 8 -> "Cancelled"
      [] code = 9 -> "RTO Initiated"
      [] code = 13 -> "Pickup Error"
      [] code \in {17, 18} -> "In Transit"
      [] code \in {19, 20} -> "RTO In Transit"
      [] code = 21 -> "Reached Destination"

\* The decimal strings of the numbers the model's inputs use: String(n).
Decimal(n) ==
    CASE n = 1 -> "1" [] n = 6 -> "6" [] n = 7 -> "7" [] n = 8 -> "8" [] n = 9 -> "9"
      [] n = 13 -> "13" [] n = 17 -> "17" [] n = 18 -> "18" [] n = 19 -> "19"
      [] n = 20 -> "20" [] n = 21 -> "21" [] n = 42 -> "42" [] OTHER -> "0"

\* statusMap[x]: the property key of a number is its decimal string, so the code
\* and the string of its digits find the same entry.
HasStatus(x) ==
    \/ x.k = "num" /\ x.v \in StatusCodes
    \/ x.k = "str" /\ \E c \in StatusCodes : x.v = Decimal(c)

StatusLabel(x) ==
    IF x.k = "num" THEN Str(statusMap(x.v))
    ELSE Str(statusMap(CHOOSE c \in StatusCodes : x.v = Decimal(c)))

\* if (statusMap[status]) status = statusMap[status]
\* else if (typeof status === "number") status = String(status)
NormalizeStatus(x) ==
    IF HasStatus(x) THEN StatusLabel(x)
    ELSE IF x.k = "num" THEN Str(Decimal(x.v)) ELSE x

\* if (shipmentStatus && statusMap[shipmentStatus]) ... else if (typeof ... "number")
NormalizeShipmentStatus(x) ==
    IF Truthy(x) /\ HasStatus(x) THEN StatusLabel(x)
    ELSE IF x.k = "num" THEN Str(Decimal(x.v)) ELSE x

(***************************************************************************)
(* Tracking rows and the data handed to upsertByAwb                        *)
(***************************************************************************)
\* The fields upsertByAwb copies into updateData for an existing row.
UpdateFields ==
    {"current_status", "current_status_id", "shipment_status", "shipment_status_id",
     "current_timestamp", "etd", "awb_assigned_date", "pickup_scheduled_date",
     "scans", "pod_status", "pod", "raw_payload"}

\* Every field a caller may hand to upsertByAwb.
DataFields ==
    UpdateFields \cup
    {"awb", "order_id", "medusa_order_id", "sr_order_id", "medusa_fulfillment_id",
     "courier_name", "is_return", "channel_id", "origin", "destination", "weight"}

\* An object literal: the fields given, every other field undefined.
Data(fields) == [f \in DataFields |-> IF f \in DOMAIN fields THEN fields[f] ELSE Undef]

\* obj.field of a carrier object that may lack the field
Get(obj, f) == IF f \in DOMAIN obj THEN obj[f] ELSE Undef

(***************************************************************************)
(* Inputs: what the carrier sends                                          *)
(***************************************************************************)
Awbs == {"AWB1", "AWB2"}

\* A webhook payload; `rich` says whether the optional fields are present.
PushPayload(awb, rich) ==
    LET base == [awb |-> Str(awb),
                 courier_name |-> Str("Bluedart"),
                 current_status |-> Str("IN TRANSIT"),
                 current_status_id |-> Num(18),
                 shipment_status |-> Str("IN TRANSIT"),
                 shipment_status_id |-> Num(18),
                 current_timestamp |-> DateStr("dmy", 3),
                 order_id |-> Str(<<"o", "1", "-", "1", "7">>),
                 sr_order_id |-> Num(5001),
                 scans |-> Arr(<<"A">>),
                 is_return |-> Num(0)]
        opt == [awb_assigned_date |-> DateStr("iso", 1),
                pickup_scheduled_date |-> DateStr("iso", 2),
                etd |-> DateStr("iso", 9),
                channel_id |-> Num(77),
                pod_status |-> Str("OTP Verified"),
                pod |-> Str("pod-ref")]
    IN IF rich THEN base @@ opt ELSE base

\* A webhook payload whose status fields carry the carrier's numeric code.
CodedPushPayload(awb, code) ==
    [PushPayload(awb, FALSE) EXCEPT !.current_status = Num(code),
                                    !.shipment_status = Num(code)]

\* The codes the carrier sends in place of a label in the payloads examined.
PushedCodes == {7}

PushPayloads ==
    {PushPayload(a, r) : a \in Awbs, r \in BOOLEAN}
    \cup {CodedPushPayload(a, c) : a \in Awbs, c \in PushedCodes}

\* The groups of fields a tracking snapshot may carry.
SnapshotGroups == {"activities", "etd", "dates", "pod", "ids", "track"}

\* A tracking_data object carrying the groups in `has`; `status` is its track_status.
Snapshot(has, status) ==
    [track_status |-> status, shipment_status |-> Num(7)]
    @@ (IF "activities" \in has
        THEN [shipment_track_activities |-> Arr(<<"A", "B">>)] ELSE << >>)
    @@ (IF "etd" \in has THEN [etd |-> DateStr("iso", 8)] ELSE << >>)
    @@ (IF "dates" \in has
        THEN [awb_assigned_date |-> DateStr("iso", 1),
              pickup_scheduled_date |-> DateStr("iso", 2)] ELSE << >>)
    @@ (IF "pod" \in has
        THEN [pod_status |-> Str("Delivered to consignee"), pod |-> Str("pod-ref-2")]
        ELSE << >>)
    @@ (IF "ids" \in has
        THEN [current_status_id |-> Num(7), shipment_status_id |-> Num(7)] ELSE << >>)
    @@ (IF "track" \in has
        THEN [shipment_track |-> Arr(<<[courier_name |-> Str("Delhivery"),
                                        origin |-> Str("Pune"),
                                        destination |-> Str("Delhi"),
                                        weight |-> Str("0.5")]>>)]
        ELSE << >>)

\* The snapshots received: a full one with numeric status 7, one with the scan
\* events and the courier only, and one with the statuses only.
Snapshots ==
    {Snapshot(SnapshotGroups, Num(7)),
     Snapshot({"track", "activities"}, Str("Delivered")),
     Snapshot({}, Num(7))}

\* Responses of getTrackingInfo: with tracking_data, or without.
TrackingResponses ==
    {[tracking_data |-> Obj(td)] : td \in Snapshots}
    \cup {[message |-> Str("No tracking data")]}

(***************************************************************************)
(* The two routes' arguments to upsertByAwb                                *)
(***************************************************************************)
\* webhook route: the object passed to trackingService.upsertByAwb
PushData(payload) ==
    Data([awb |-> Get(payload, "awb"),
          order_id |-> Get(payload, "order_id"),
          medusa_order_id |-> MedusaOrderId(Get(payload, "order_id")),
          sr_order_id |-> IF Truthy(Get(payload, "sr_order_id"))
                          THEN ToNumber(Get(payload, "sr_order_id")) ELSE Undef,
          courier_name |-> Get(payload, "courier_name"),
          current_status |-> Get(payload, "current_status"),
          current_status_id |-> IF Truthy(Get(payload, "current_status_id"))
                                THEN ToNumber(Get(payload, "current_status_id"))
                                ELSE Undef,
          shipment_status |-> Get(payload, "shipment_status"),
          shipment_status_id |-> IF Truthy(Get(payload, "shipment_status_id"))
                                 THEN ToNumber(Get(payload, "shipment_status_id"))
                                 ELSE Undef,
          current_timestamp |-> ParseDate(Get(payload, "current_timestamp")),
          etd |-> ParseDate(Get(payload, "etd")),
          awb_assigned_date |-> ParseDate(Get(payload, "awb_assigned_date")),
          pickup_scheduled_date |-> ParseDate(Get(payload, "pickup_scheduled_date")),
          scans |-> OrElse(Get(payload, "scans"), Arr(<< >>)),
          pod_status |-> Get(payload, "pod_status"),
          pod |-> Get(payload, "pod"),
          is_return |-> Bool(Get(payload, "is_return") = Num(1)),
          channel_id |-> IF Truthy(Get(payload, "channel_id"))
                         THEN ToNumber(Get(payload, "channel_id")) ELSE Undef,
          raw_payload |-> Obj(payload)])

\* trackingData.shipment_track?.[0]
TrackInfo(td) ==
    IF Truthy(Get(td, "shipment_track")) /\ Len(Get(td, "shipment_track").v) > 0
    THEN Get(td, "shipment_track").v[1]
    ELSE << >>

\* new Date(): the instant of the sync request
SyncInstant == DateOf(10)

\* sync route: the object passed to trackingService.upsertByAwb
PullData(awb, response) ==
    LET td == response.tracking_data.v
        trackInfo == TrackInfo(td)
        status == OrElse(OrElse(Get(td, "current_status"), Get(td, "track_status")),
                         Str("Unknown"))
        shipmentStatus == OrElse(Get(td, "shipment_status"), Null)
        scans == OrElse(OrElse(Get(td, "shipment_track_activities"), Get(td, "scans")),
                        Arr(<< >>))
    IN
    Data([awb |-> Str(awb),
          courier_name |-> OrElse(OrElse(Get(trackInfo, "courier_name"),
                                         Get(td, "courier_name")), Null),
          current_status |-> NormalizeStatus(status),
          current_status_id |-> OrElse(Get(td, "current_status_id"), Num(0)),
          shipment_status |-> NormalizeShipmentStatus(shipmentStatus),
          shipment_status_id |-> OrElse(Get(td, "shipment_status_id"), Num(0)),
          current_timestamp |-> IF Truthy(Get(td, "current_timestamp"))
                                THEN NewDate(Get(td, "current_timestamp"))
                                ELSE SyncInstant,
          etd |-> IF Truthy(Get(td, "etd")) THEN NewDate(Get(td, "etd"))
                  ELSE IF Truthy(Get(trackInfo, "edd"))
                       THEN NewDate(Get(trackInfo, "edd")) ELSE Null,
          awb_assigned_date |-> IF Truthy(Get(td, "awb_assigned_date"))
                                THEN NewDate(Get(td, "awb_assigned_date")) ELSE Null,
          pickup_scheduled_date |-> IF Truthy(Get(td, "pickup_scheduled_date"))
                                    THEN NewDate(Get(td, "pickup_scheduled_date"))
                                    ELSE Null,
          scans |-> scans,
          pod_status |-> OrElse(OrElse(Get(td, "pod_status"),
                                       Get(trackInfo, "pod_status")), Null),
          pod |-> OrElse(OrElse(Get(td, "pod"), Get(trackInfo, "pod")), Null),
          is_return |-> OrElse(Get(td, "is_return"), Bool(FALSE)),
          origin |-> OrElse(Get(trackInfo, "origin"), Null),
          destination |-> OrElse(Get(trackInfo, "destination"), Null),
          weight |-> OrElse(Get(trackInfo, "weight"), Null),
          raw_payload |-> Obj(response)])

\* A call of upsertByAwb by other code of the host, supplying the required fields
\* only (awb, current_status).
DirectData ==
    {Data([awb |-> Str(a), current_status |-> Str("DELIVERED")]) : a \in Awbs}

(***************************************************************************)
(* ShiprocketTrackingModuleService.upsertByAwb                             *)
(***************************************************************************)
\* A value as the table stores it: a column not given is NULL.
DbValue(x) == IF x.k = "undefined" THEN Null ELSE x

\* The row ids whose awb is the one asked for: listShiprocketTrackings({awb}).
RowsOfAwb(awb) == {i \in DOMAIN store : store[i].col["awb"] = awb}

UpdatePatch_KeepsUndefined(data) == UpdateFields

\* The keys of updateData left after the undefined ones are deleted (id apart).
UpdatePatch(data) == {f \in UpdateFields : data[f].k # "undefined"}

\* An update that writes every column the caller gave.
UpdateRow_Replaces(row, data) ==
    [row EXCEPT !.col = [f \in DataFields |->
        IF data[f].k # "undefined" THEN DbValue(data[f]) ELSE row.col[f]]]

\* updateShiprocketTrackings([updateData]) on the row
UpdateRow(row, data) ==
    [row EXCEPT !.col = [f \in DataFields |->
        IF f \in UpdatePatch(data) THEN DbValue(data[f]) ELSE row.col[f]]]

\* createShiprocketTrackings(data): a new row with a fresh id
CreateRow(id, data) == [id |-> id, col |-> [f \in DataFields |-> DbValue(data[f])]]

\* A caller enters upsertByAwb(data) and issues the list query.
CallUpsertByAwb(h, src, data) ==
    /\ upsert[h].pc = "idle"
    /\ upserts < MaxUpserts
    /\ upserts' = upserts + 1
    /\ upsert' = [upsert EXCEPT ![h] = [pc |-> "list", src |-> src, data |-> data]]
    /\ upserted' = NoUpserted
    /\ UNCHANGED <<store, managerVars, shipmentVars, estimateVars, frontVars>>

\* Webhook route, for a payload that passed the token check: 400 without a write
\* when the payload has no awb, else upsertByAwb with the mapped payload.
WebhookPost(h, payload) ==
    /\ Truthy(Get(payload, "awb"))
    /\ CallUpsertByAwb(h, "push", PushData(payload))
    /\ UNCHANGED hookVars

\* Sync route, once getTrackingInfo has answered: 404 without a write when the
\* answer has no tracking_data, else upsertByAwb with the mapped snapshot.
SyncPost(h, awb, response) ==
    /\ Truthy(Get(response, "tracking_data"))
    /\ CallUpsertByAwb(h, "pull", PullData(awb, response))
    /\ UNCHANGED hookVars

\* upsertByAwb called by other code of the host.
DirectUpsert(h, data) == CallUpsertByAwb(h, "direct", data) /\ UNCHANGED hookVars

\* const [existing] = await listShiprocketTrackings({awb}, {take: 1}): one of the
\* rows of the awb (the query gives no order), or none.
ListShiprocketTrackings(h) ==
    /\ upsert[h].pc = "list"
    /\ \E x \in (IF RowsOfAwb(upsert[h].data["awb"]) = {} THEN {0}
                 ELSE RowsOfAwb(upsert[h].data["awb"])) :
          upsert' = [upsert EXCEPT ![h] = [pc |-> "write", src |-> upsert[h].src,
                                           data |-> upsert[h].data, existing |-> x]]
    /\ upserted' = NoUpserted
    /\ UNCHANGED <<store, upserts, managerVars, shipmentVars, estimateVars, frontVars>>

\* if (existing): update the row found and return updated[0]. The caller resumes
\* in the same step (the write actions leave the caller's variables to it).
UpdateShiprocketTrackings(h) ==
    /\ upsert[h].pc = "write"
    /\ upsert[h].existing # 0
    /\ LET id == upsert[h].existing
           row == UpdateRow(store[id], upsert[h].data)
       IN /\ store' = [store EXCEPT ![id] = row]
          /\ upserted' = [kind |-> "update", src |-> upsert[h].src,
                          data |-> upsert[h].data, prior |-> store[id], row |-> row]
    /\ upsert' = [upsert EXCEPT ![h] = NoUpsert]
    /\ UNCHANGED <<upserts, managerVars, shipmentVars, estimateVars, frontVars>>

\* else: create a row from data and return it
CreateShiprocketTrackings(h) ==
    /\ upsert[h].pc = "write"
    /\ upsert[h].existing = 0
    /\ LET row == CreateRow(Len(store) + 1, upsert[h].data)
       IN /\ store' = Append(store, row)
          /\ upserted' = [kind |-> "create", src |-> upsert[h].src,
                          data |-> upsert[h].data, row |-> row]
    /\ upsert' = [upsert EXCEPT ![h] = NoUpsert]
    /\ UNCHANGED <<upserts, managerVars, shipmentVars, estimateVars, frontVars>>

\* The client manager takes no step while the tracking store is examined.
InitTracking ==
    /\ ManagerInit /\ TrackingIdle /\ ShipmentIdle
    /\ EstimateIdle /\ DefaultPreference /\ HookIdle /\ FrontIdle /\ TokenConfigured

TrackingNext ==
    \/ \E h \in Handlers, payload \in PushPayloads : WebhookPost(h, payload)
    \/ \E h \in Handlers, awb \in Awbs, response \in TrackingResponses :
           SyncPost(h, awb, response)
    \/ \E h \in Handlers, data \in DirectData : DirectUpsert(h, data)
    \/ \E h \in Handlers : ListShiprocketTrackings(h) /\ UNCHANGED hookVars
    \/ \E h \in Handlers : UpdateShiprocketTrackings(h) /\ UNCHANGED hookVars
    \/ \E h \in Handlers : CreateShiprocketTrackings(h) /\ UNCHANGED hookVars

SpecTracking == InitTracking /\ [][TrackingNext]_vars

(***************************************************************************)
(* Properties of the client manager (checked under SpecManager)            *)
(***************************************************************************)
InQueue(p) == \E i \in 1..Len(microtasks) : microtasks[i] = p

Suspended(p) == pc[p] = "awaitRefresh"

\* A caller suspended on a refresh is waiting for something that will happen: the
\* response of the exchange in flight, or its own queued continuation.
NoLostWaiter ==
    \A p \in Callers : Suspended(p) =>
        IF Settled(joined[p]) THEN InQueue(p) ELSE joined[p] \in loginInFlight

\* C1: at most one /auth/login request is in flight at any time, and every caller
\* (getAxios, forceRefreshToken or a 401-triggered refresh) that is suspended on a
\* refresh still in progress waits on that one exchange.
C1_SingleLoginInFlight ==
    /\ Cardinality(loginInFlight) <= 1
    /\ \A p \in Callers :
          (Suspended(p) /\ ~Settled(joined[p])) => loginInFlight = {joined[p]}
    /\ \A p, q \in Callers :
          (Suspended(p) /\ Suspended(q) /\ owner[p] /\ owner[q]
             /\ ~Settled(joined[p]) /\ ~Settled(joined[q])) => p = q

\* Two callers wait on the same login exchange, one of which started it.
C1_Witness ==
    \E p, q \in Callers :
        /\ p # q /\ Suspended(p) /\ Suspended(q)
        /\ owner[p] /\ ~owner[q]
        /\ joined[p] = joined[q]
        /\ loginInFlight = {joined[p]}

\* C2: the getAxios callers that found the token missing or expired and called
\* before the login exchange completed all wait on one and the same exchange (one
\* login call for all of them, started by at most one of them); none of them is
\* lost when it completes, and each returns successfully if it succeeded.
C2_Coalescing ==
    /\ \A p, q \in Callers :
          (Suspended(p) /\ Suspended(q) /\ op[p] = "getAxios" /\ op[q] = "getAxios"
             /\ ~Settled(joined[p]) /\ ~Settled(joined[q]))
          => (joined[p] = joined[q] /\ (owner[p] /\ owner[q] => p = q))
    /\ \A p \in Callers : (Suspended(p) /\ op[p] = "getAxios") =>
          IF Settled(joined[p]) THEN InQueue(p) ELSE joined[p] \in loginInFlight
    /\ (returned.op = "getAxios" /\ returned.joined # 0
          /\ promise[returned.joined].gotToken) => returned.outcome = "ok"

\* Every caller called getAxios on an expired token, one login was made for all of
\* them, it succeeded, and all of them are about to return.
C2_Witness ==
    /\ Len(microtasks) = NumCallers
    /\ \A p \in Callers :
          /\ op[p] = "getAxios" /\ InQueue(p)
          /\ joined[p] = 2 /\ promise[2].state = "fulfilled"
          /\ promise[2].before.present
    /\ loginCount = 2

\* C3: at the moment getAxios returns successfully, isTokenValid() is true and the
\* shared channel's Authorization header carries the cached token, also for a
\* caller that waited on another caller's refresh.
C3_ChannelCarriesValidToken ==
    (returned.op = "getAxios" /\ returned.outcome = "ok") =>
        /\ IsTokenValid(cachedToken, now)
        /\ cachedToken.present
        /\ now < cachedToken.expiresAt - 60000
        /\ authHeader = cachedToken.token

\* A getAxios caller that waited on a refresh started by another caller returns.
C3_Witness ==
    /\ returned.op = "getAxios" /\ returned.outcome = "ok"
    /\ returned.joined # 0 /\ ~returned.owner

\* C4 as claimed: every outbound call that was denied (401) caused exactly one
\* refresh and was re-sent exactly once.
C4_AlwaysResent ==
    (returned.op = "request" /\ returned.req.retry) =>
        (returned.req.refreshes = 1 /\ returned.req.attempts = 2)

\* C4 (amended): a non-login call that receives a 401 calls refreshToken() exactly
\* once (joining a refresh in progress or starting one); if that refresh succeeds
\* the call is re-sent exactly once, carrying the token that refresh obtained, which
\* differs from the one the denied attempt carried; if the refresh fails the call
\* is not re-sent and the refresh error is surfaced.  A denied re-sent call is
\* surfaced without further refresh or retry, so a call makes at most two attempts
\* and at most one refresh.  A login request is never retried: once its response
\* has arrived its promise is settled.  No suspended caller waits for nothing.
C4_RetryOnce ==
    /\ \A p \in Callers :
          /\ req[p].attempts <= 2
          /\ req[p].refreshes <= 1
          /\ req[p].retry <=> (req[p].refreshes = 1)
          /\ req[p].attempts = 2 =>
                /\ req[p].retry
                /\ promise[joined[p]].gotToken
                /\ req[p].auth = joined[p]
                /\ req[p].renewed
    /\ (returned.op = "request" /\ returned.req.retry) =>
          IF promise[returned.joined].gotToken
          THEN returned.req.attempts = 2
          ELSE returned.req.attempts = 1 /\ returned.outcome = "error"
    /\ \A e \in 1..loginCount : e \in loginInFlight \/ Settled(e)
    /\ NoLostWaiter

\* A call was denied, refreshed, re-sent, denied again and surfaced as an error.
C4_Witness ==
    /\ returned.op = "request" /\ returned.req.retry
    /\ returned.req.attempts = 2 /\ returned.outcome = "error"

\* C5: while a login exchange is pending and after it has failed, the cached token,
\* its expiry and the Authorization header are those cached when the refresh
\* started; a response without a token rejects the refresh; the failure reaches the
\* caller that started the refresh and every caller waiting on it as an error.
C5_FailureLeavesToken ==
    /\ \A e \in Exchanges :
          (e = loginCount /\ promise[e].state \in {"pending", "rejected"}) =>
              /\ cachedToken = promise[e].before
              /\ authHeader = promise[e].before.token
    /\ \A e \in Exchanges :
          (Settled(e) /\ ~promise[e].gotToken) => promise[e].state = "rejected"
    /\ (returned.joined # 0 /\ promise[returned.joined].state = "rejected") =>
          returned.outcome = "error"
    /\ \A p \in Callers : (Suspended(p) /\ Settled(joined[p])) => InQueue(p)

\* A refresh failed while a token was cached; a caller that waited on it (without
\* having started it) got the error, and the token is still cached.
C5_Witness ==
    /\ returned.joined # 0 /\ ~returned.owner /\ returned.outcome = "error"
    /\ promise[returned.joined].state = "rejected"
    /\ cachedToken.present
    /\ cachedToken = promise[returned.joined].before

\* C6: right after a successful refresh completed at time `now` the cached token
\* expires at now + 8 days; isTokenValid() is true exactly when a token is cached
\* and now < expiresAt - 60 s, and false while no token was ever obtained; getAxios
\* returns without a refresh only in the first case and waits for one only in the
\* second.
C6_ExpiryAndValidity ==
    /\ (microtasks # << >> /\ owner[Head(microtasks)]
          /\ promise[joined[Head(microtasks)]].state = "fulfilled") =>
          cachedToken = [present |-> TRUE, token |-> joined[Head(microtasks)],
                         expiresAt |-> now + 8 * 24 * 60 * 60 * 1000]
    /\ IsTokenValid(cachedToken, now) <=>
          (cachedToken.present /\ now < cachedToken.expiresAt - 60000)
    /\ (\A e \in Exchanges : ~promise[e].gotToken) =>
          (~cachedToken.present /\ ~IsTokenValid(cachedToken, now))
    /\ (returned.op = "getAxios" /\ returned.joined = 0) =>
          (cachedToken.present /\ now < cachedToken.expiresAt - 60000)
    /\ \A p \in Callers :
          (Suspended(p) /\ op[p] = "getAxios" /\ ~Settled(joined[p])) =>
              ~(cachedToken.present /\ now < cachedToken.expiresAt - 60000)

\* getAxios is called at the first instant at which the cached token is no longer
\* valid (now = expiresAt - 60 s) and waits for a refresh.
C6_Witness ==
    \E p \in Callers :
        /\ Suspended(p) /\ op[p] = "getAxios"
        /\ cachedToken.present
        /\ now = cachedToken.expiresAt - 60000

\* C7: forceRefreshToken issues a login exchange whenever none is in flight, valid
\* token or not; when one is in flight it waits for that exchange and issues none.
C7_ForceRefresh ==
    [][\A p \in Callers : ForceRefreshToken(p) =>
          IF loginInFlight = {}
          THEN /\ loginCount' = loginCount + 1
               /\ loginInFlight' = {loginCount'}
               /\ joined'[p] = loginCount'
               /\ pc'[p] = "awaitRefresh"
          ELSE /\ loginCount' = loginCount
               /\ loginInFlight' = loginInFlight
               /\ loginInFlight = {joined'[p]}
               /\ pc'[p] = "awaitRefresh"]_vars

\* forceRefreshToken has started a login exchange although the token is valid.
C7_Witness ==
    \E p \in Callers :
        /\ Suspended(p) /\ op[p] = "forceRefresh" /\ owner[p]
        /\ loginInFlight = {joined[p]}
        /\ IsTokenValid(cachedToken, now)


(***************************************************************************)
(* Properties of the tracking store (checked under SpecTracking)           *)
(***************************************************************************)
\* C8: whatever the interleaving of upsertByAwb calls of the push and pull routes,
\* two concurrent calls for a new waybill included, the store holds at most one
\* row per awb, and exactly one for the awb of a call that has completed.
C8_OneRecordPerAwb ==
    \A a \in Awbs :
        /\ Cardinality(RowsOfAwb(Str(a))) <= 1
        /\ (upserted.kind # "none" /\ upserted.row.col["awb"] = Str(a))
              => Cardinality(RowsOfAwb(Str(a))) = 1

\* C9: upsertByAwb on an awb that has a row overwrites, among the fields it
\* copies, exactly those whose incoming value is defined, with the incoming
\* value; every other field, an undefined one in particular, keeps the stored
\* value; the row returned is the row now stored under the same id.
C9_UpdateOverwritesDefinedOnly ==
    upserted.kind = "update" =>
        /\ \A f \in DataFields :
              upserted.row.col[f] =
                  IF f \in UpdateFields /\ upserted.data[f].k # "undefined"
                  THEN upserted.data[f]
                  ELSE upserted.prior.col[f]
        /\ upserted.row.id = upserted.prior.id
        /\ store[upserted.row.id] = upserted.row

\* C9 witness: a row with scans [A] was updated by a call giving current_status
\* only; scans is still [A] and the status is the new one.
C9_Witness ==
    /\ upserted.kind = "update"
    /\ upserted.src = "direct"
    /\ upserted.data["scans"].k = "undefined"
    /\ upserted.prior.col["scans"] = Arr(<<"A">>)
    /\ upserted.row.col["scans"] = Arr(<<"A">>)
    /\ upserted.prior.col["current_status"] = Str("IN TRANSIT")
    /\ upserted.row.col["current_status"] = Str("DELIVERED")

\* The columns set when the row is created.
CreationFields ==
    {"awb", "courier_name", "order_id", "sr_order_id", "medusa_order_id",
     "is_return", "channel_id"}

\* C39: an upsert for an awb that already has a row never changes the row's id,
\* awb, courier_name, order_id, sr_order_id, medusa_order_id, is_return or
\* channel_id: they keep the values of the row's creation, whichever route
\* created it.
C39_UpdateKeepsCreationFields ==
    upserted.kind = "update" =>
        /\ upserted.row.id = upserted.prior.id
        /\ \A f \in CreationFields : upserted.row.col[f] = upserted.prior.col[f]
        /\ \A f \in CreationFields :
              store[upserted.prior.id].col[f] = upserted.prior.col[f]

\* C39 witness: a row created by a pull, with no host order, was updated by a
\* push that names a host order and another courier; the row still has neither.
C39_Witness ==
    /\ upserted.kind = "update"
    /\ upserted.src = "push"
    /\ upserted.prior.col["medusa_order_id"] = Null
    /\ upserted.data["medusa_order_id"].k \notin {"undefined", "null"}
    /\ upserted.data["courier_name"] # upserted.prior.col["courier_name"]
    /\ upserted.row.col["medusa_order_id"] = Null
    /\ upserted.row.col["courier_name"] = upserted.prior.col["courier_name"]

\* The fields a push stores that a later pull must not erase.
PushedFields ==
    {"scans", "etd", "awb_assigned_date", "pickup_scheduled_date", "pod_status", "pod",
     "current_status_id", "shipment_status_id"}

\* The snapshot of a sync answer has nothing to fill field f from.
SnapshotLacks(response, f) ==
    LET td == response.tracking_data.v
        from == IF f = "scans" THEN {"shipment_track_activities", "scans"} ELSE {f}
    IN /\ from \cap DOMAIN td = {}
       /\ f = "etd" => "edd" \notin DOMAIN TrackInfo(td)
       /\ f \in {"pod_status", "pod"} => f \notin DOMAIN TrackInfo(td)

\* C10: when a pull updates a row last written by a push, every pushed field the
\* snapshot lacks has the value it had before the pull.
C10_PullKeepsLackingFields ==
    (/\ upserted.kind = "update"
     /\ upserted.src = "pull"
     /\ upserted.prior.col["raw_payload"].k = "obj"
     /\ upserted.prior.col["raw_payload"].v \in PushPayloads)
    => \A f \in PushedFields :
          SnapshotLacks(upserted.data["raw_payload"].v, f)
             => upserted.row.col[f] = upserted.prior.col[f]

\* The status fields of what the carrier sent in the call that has just
\* completed: the webhook payload, or the snapshot of the sync answer.
CarrierStatus(u, f) ==
    LET raw == u.data["raw_payload"].v IN
    IF u.src = "push" THEN Get(raw, f)
    ELSE IF f = "current_status"
         THEN OrElse(Get(raw.tracking_data.v, "current_status"),
                     Get(raw.tracking_data.v, "track_status"))
         ELSE Get(raw.tracking_data.v, f)

\* C11: when the carrier supplies a code of the status table in a status field,
\* the row stored by the push route or the sync route holds the code's label in
\* that field.
C11_CodeStoredAsLabel ==
    (upserted.kind # "none" /\ upserted.src \in {"push", "pull"}) =>
        \A f \in {"current_status", "shipment_status"} :
            LET x == CarrierStatus(upserted, f) IN
            (x.k = "num" /\ x.v \in StatusCodes)
                => upserted.row.col[f] = Str(statusMap(x.v))

(***************************************************************************)
(* Shipment creation: what the host hands to ShiprocketClient.create       *)
(***************************************************************************)
\* weight, length, width, height as a variant or a product carries them
Dims(w, l, b, h) == [weight |-> w, length |-> l, width |-> b, height |-> h]

\* A variant: its own dimensions and its product (undefined, or an object).
Variant(dims, product) ==
    Obj([weight |-> dims.weight, length |-> dims.length, width |-> dims.width,
         height |-> dims.height, product |-> product])

\* A fulfillment item with the order line orderItemMap finds for it (undefined
\* when the order has no such line).
FulfillmentItem(title, quantity, line) ==
    [title |-> title, quantity |-> quantity, line |-> line]

\* The items examined: two well-formed ones; one with no height on the variant
\* nor on the product; one whose height is only on the product; one without an
\* order line; one whose order line has no variant.
Mug == FulfillmentItem("Mug", Num(1),
         Obj([variant |-> Variant(Dims(Num(200), Num(10), Num(8), Num(2)), Undef)]))
Pot == FulfillmentItem("Pot", Num(2),
         Obj([variant |-> Variant(Dims(Num(300), Num(12), Num(6), Num(3)), Undef)]))
Cup == FulfillmentItem("Cup", Num(1),
         Obj([variant |-> Variant(Dims(Num(100), Num(5), Num(5), Undef),
                                  Obj(Dims(Undef, Undef, Undef, Undef)))]))
Jar == FulfillmentItem("Jar", Num(1),
         Obj([variant |-> Variant(Dims(Num(100), Num(5), Num(5), Undef),
                                  Obj(Dims(Undef, Undef, Undef, Num(4))))]))
Lid == FulfillmentItem("Lid", Num(1), Undef)
Cap == FulfillmentItem("Cap", Num(1), Obj([variant |-> Undef]))

Catalog == {Mug, Pot, Cup, Jar, Lid, Cap}

\* Every list of at most MaxItems items, the empty list included.
ItemLists == UNION {[1..n -> Catalog] : n \in 0..MaxItems}

\* Strings of characters, for the fields whose characters the code examines.
Digits(n) == [i \in 1..n |-> "7"]
Phone10 == Str(Digits(5) \o <<" ">> \o Digits(5))
Phone9 == Str(Digits(9))
PhoneWithCountryCode == Str(<<"+", "9", "1", "-">> \o Digits(10))
Pin6 == Str(Digits(6))
Pin5 == Str(Digits(5))

ShippingAddress ==
    [first_name |-> Str("Asha"), address_1 |-> Str("12 MG Road"), city |-> Str("Pune"),
     province |-> Str("MH"), postal_code |-> Pin6, phone |-> Phone10]

BillingAddress ==
    [first_name |-> Str("Ravi"), address_1 |-> Str("4 Park Street"),
     city |-> Str("Delhi"), province |-> Str("DL"), postal_code |-> Pin6,
     phone |-> Phone10, email |-> Str("ravi@example.in")]

\* order.customer standing in for a billing address: a name and an email only
CustomerOnly == [first_name |-> Str("Ravi"), email |-> Str("ravi@example.in")]

Order(shipping, billing) == [id |-> "order_01", shipping |-> shipping, billing |-> billing]

\* The orders examined: a complete one, one billed to the customer record, and
\* orders with one defect each.
Orders ==
    {Order(ShippingAddress, BillingAddress),
     Order(ShippingAddress, CustomerOnly),
     Order([ShippingAddress EXCEPT !.city = EmptyStr], BillingAddress),
     Order([ShippingAddress EXCEPT !.province = Undef], CustomerOnly),
     Order([ShippingAddress EXCEPT !.phone = Phone9], BillingAddress),
     Order([ShippingAddress EXCEPT !.phone = PhoneWithCountryCode], BillingAddress),
     Order([ShippingAddress EXCEPT !.postal_code = Pin5], BillingAddress),
     Order(ShippingAddress, [BillingAddress EXCEPT !.first_name = Null])}

(***************************************************************************)
(* Validation utilities and the totals of ShiprocketClient.create          *)
(***************************************************************************)
\* new MedusaError(type, message): the type, what the message says, and the
\* item title or field name the message carries.
Error(type, message, about) == [type |-> type, message |-> message, about |-> about]

\* A weight in kilograms, held as a count of thousandths: grams / 1000.
Kg(thousandths) == [unit |-> "kg", milli |-> thousandths]
GramsToKg(grams) == Kg(grams)

\* variant[f] || product?.[f] || 0, as a number
EffectiveDim(variant, f) ==
    LET product == variant.v.product
        ofProduct == IF product.k \in {"undefined", "null"} THEN Undef
                     ELSE Get(product.v, f)
    IN ToNumber(OrElse(OrElse(variant.v[f], ofProduct), Num(0))).v

\* if (!weight || !length || !breadth || !height)
DimsMissing_HeightUnchecked(weight, length, breadth, height) ==
    weight.milli = 0 \/ length = 0 \/ breadth = 0
DimsMissing(weight, length, breadth, height) ==
    weight.milli = 0 \/ length = 0 \/ breadth = 0 \/ height = 0

\* Number(item.quantity || item.raw_quantity?.value || 1)
Quantity(item) ==
    ToNumber(OrElse(OrElse(item.quantity, Get(item, "raw_quantity")), Num(1))).v

Max(a, b) == IF a >= b THEN a ELSE b

\* totalHeight += height * quantity
AddHeight_Max(total, height, quantity) == Max(total, height)
AddHeight(total, height, quantity) == total + height * quantity

ZeroTotals == [weight |-> Kg(0), length |-> 0, breadth |-> 0, height |-> 0]

\* The loop over the items: the totals, or the error of the first item that
\* has no order line, no variant, or a dimension missing.
RECURSIVE Aggregate(_, _)
Aggregate(items, totals) ==
    IF items = << >> THEN [ok |-> TRUE, totals |-> totals]
    ELSE
    LET item == Head(items)
        orderItem == item.line
    IN
    IF ~Truthy(orderItem)
    THEN [ok |-> FALSE,
          error |-> Error("INVALID_DATA", "Order item not found", item.title)]
    ELSE IF ~Truthy(orderItem.v.variant)
    THEN [ok |-> FALSE,
          error |-> Error("INVALID_DATA", "Variant data missing", item.title)]
    ELSE
    LET variant == orderItem.v.variant
        weight == GramsToKg(EffectiveDim(variant, "weight"))
        length == EffectiveDim(variant, "length")
        breadth == EffectiveDim(variant, "width")
        height == EffectiveDim(variant, "height")
        quantity == Quantity(item)
    IN
    IF DimsMissing(weight, length, breadth, height)
    THEN [ok |-> FALSE,
          error |-> Error("INVALID_DATA", "Missing dimensions/weight", item.title)]
    ELSE Aggregate(Tail(items),
                   [weight |-> Kg(totals.weight.milli + weight.milli * quantity),
                    length |-> Max(totals.length, length),
                    breadth |-> Max(totals.breadth, breadth),
                    height |-> AddHeight(totals.height, height, quantity)])

\* requireField: value === undefined || value === null || value === ""
RequireFieldThrows(x) == x.k \in {"undefined", "null", "empty"}

\* value.toString().replace(/[^0-9]/g, "")
Cleaned(x) == SelectSeq(x.v, IsDigit)

\* Number(cleaned): the digits without their leading zeros
RECURSIVE StripLeadingZeros(_)
StripLeadingZeros(d) ==
    IF d # << >> /\ Head(d) = "0" THEN StripLeadingZeros(Tail(d)) ELSE d

NumberOfDigits(d) == [k |-> "digits", v |-> StripLeadingZeros(d)]

PhoneLength == 10
PincodeLength == 6

\* validateAndSanitizePhone throws: no value, or cleaned.length !== 10
PhoneThrows_AnyLength(x) == ~Truthy(x)
PhoneThrows(x) == ~Truthy(x) \/ Len(Cleaned(x)) # PhoneLength

\* validateAndSanitizePincode throws: no value, or cleaned is not six digits
PincodeThrows(x) == ~Truthy(x) \/ Len(Cleaned(x)) # PincodeLength

(***************************************************************************)
(* The order payload of ShiprocketClient.create                            *)
(***************************************************************************)
\* The validated fields of orderData, in the order the object literal
\* evaluates them.
FieldOrder ==
    <<"billing_customer_name", "billing_address", "billing_city", "billing_pincode",
      "billing_state", "billing_country", "billing_email", "billing_phone",
      "shipping_customer_name", "shipping_address", "shipping_city",
      "shipping_pincode", "shipping_country", "shipping_state", "shipping_email",
      "shipping_phone">>

\* The expression handed to requireField for each field.
FieldValue(order, n) ==
    LET shipping == order.shipping
        billing == order.billing
        either(f) == OrElse(Get(shipping, f), Get(billing, f))
    IN CASE n = "billing_customer_name" -> Get(billing, "first_name")
         [] n = "billing_address" -> either("address_1")
         [] n = "billing_city" -> either("city")
         [] n = "billing_pincode" -> either("postal_code")
         [] n = "billing_state" -> either("province")
         [] n = "billing_country" -> OrElse(either("country_code"), Str("IN"))
         [] n = "billing_email" -> OrElse(Get(billing, "email"), Get(order, "email"))
         [] n = "billing_phone" -> either("phone")
         [] n = "shipping_customer_name" -> Get(shipping, "first_name")
         [] n = "shipping_address" -> Get(shipping, "address_1")
         [] n = "shipping_city" -> Get(shipping, "city")
         [] n = "shipping_pincode" -> Get(shipping, "postal_code")
         [] n = "shipping_country" -> OrElse(Get(shipping, "country_code"), Str("IN"))
         [] n = "shipping_state" -> Get(shipping, "province")
         [] n = "shipping_email" -> OrElse(Get(billing, "email"), Get(order, "email"))
         [] n = "shipping_phone" -> Get(shipping, "phone")

\* The field name each check puts in its error message.
FieldLabel(n) ==
    CASE n = "billing_customer_name" -> "Billing First Name"
      [] n = "billing_address" -> "Billing Address"
      [] n = "billing_city" -> "Billing City"
      [] n = "billing_pincode" -> "Billing Pincode"
      [] n = "billing_state" -> "Billing State"
      [] n = "billing_country" -> "Billing Country"
      [] n = "billing_email" -> "Billing Email"
      [] n = "billing_phone" -> "Billing Phone"
      [] n = "shipping_customer_name" -> "Shipping First Name"
      [] n = "shipping_address" -> "Shipping Address"
      [] n = "shipping_city" -> "Shipping City"
      [] n = "shipping_pincode" -> "Shipping Pincode"
      [] n = "shipping_country" -> "Shipping Country"
      [] n = "shipping_state" -> "Shipping State"
      [] n = "shipping_email" -> "Shipping Email"
      [] n = "shipping_phone" -> "Shipping Phone"

PincodeFields == {"billing_pincode", "shipping_pincode"}
PhoneFields == {"billing_phone", "shipping_phone"}

\* The check of field n throws.
FieldThrows(order, n) ==
    LET x == FieldValue(order, n) IN
    \/ RequireFieldThrows(x)
    \/ n \in PincodeFields /\ PincodeThrows(x)
    \/ n \in PhoneFields /\ PhoneThrows(x)

\* The error the check of field n throws.
FieldError(order, n) ==
    LET x == FieldValue(order, n) IN
    IF RequireFieldThrows(x)
    THEN Error("INVALID_DATA", "Missing required field", FieldLabel(n))
    ELSE IF n \in PincodeFields
    THEN Error("INVALID_DATA", "must be 6 digits", FieldLabel(n))
    ELSE Error("INVALID_DATA", "must be 10 digits", FieldLabel(n))

\* The value of field n in the payload: phones and pincodes as numbers.
FieldOfPayload(order, n) ==
    LET x == FieldValue(order, n) IN
    IF n \in PincodeFields \cup PhoneFields THEN NumberOfDigits(Cleaned(x)) ELSE x

\* orderData: the error of the first field whose check throws, or the payload.
OrderData(order, totals) ==
    LET bad == {i \in DOMAIN FieldOrder : FieldThrows(order, FieldOrder[i])} IN
    IF bad # {}
    THEN [ok |-> FALSE,
          error |-> FieldError(order, FieldOrder[CHOOSE i \in bad : \A j \in bad : i <= j])]
    ELSE [ok |-> TRUE,
          payload |-> [fields |-> [i \in DOMAIN FieldOrder |->
                                      FieldOfPayload(order, FieldOrder[i])],
                       length |-> totals.length,
                       breadth |-> totals.breadth,
                       height |-> totals.height,
                       weight |-> totals.weight]]

\* create() up to its first await: the totals, then the payload. The error
\* thrown, or the payload to submit.
Prepare(items, order) ==
    LET agg == Aggregate(items, ZeroTotals) IN
    IF ~agg.ok THEN [ok |-> FALSE, error |-> agg.error]
    ELSE OrderData(order, agg.totals)

(***************************************************************************)
(* handleError and the answers of the carrier                              *)
(***************************************************************************)
\* A handleError that throws one type for every status.
HandleError_Conflated(status) == "UNEXPECTED_STATE"

\* handleError: the MedusaError type for an HTTP status (0: no response).
HandleError(status) ==
    CASE status = 401 -> "UNAUTHORIZED"
      [] status = 404 -> "NOT_FOUND"
      [] status = 429 -> "NOT_ALLOWED"
      [] status \in {400, 422, 405} -> "INVALID_DATA"
      [] OTHER -> "UNEXPECTED_STATE"

\* getSharedAxios(): the token is valid; or a login is made first and succeeds;
\* or the login fails and getAxios throws the login's MedusaError.
AxiosOutcomes == {"cached", "login", "loginFails"}

LoginError == Error("INVALID_DATA", "Shiprocket authentication failed", "login")

\* The calls getSharedAxios() adds, then the request if the channel was obtained.
CallsOf(axios, request) ==
    (IF axios = "cached" THEN << >> ELSE <<"POST /auth/login">>)
    \o (IF axios = "loginFails" THEN << >> ELSE <<request>>)

(***************************************************************************)
(* createFulfillment: ShiprocketClient.create, then createDocuments        *)
(***************************************************************************)
NoError == Error("none", "", "")
NoDocuments == [manifest |-> "", label |-> "", invoice |-> ""]

\* A createFulfillment call that has just entered client.create.
Shipment(items, order) ==
    [pc |-> "order", op |-> "createFulfillment", items |-> items, order |-> order,
     payload |-> << >>,         \* orderData
     courier |-> "none",        \* how courier preference resolution ended
     courierId |-> 0,           \* courierId (0: null)
     awbPayload |-> << >>,      \* awbPayload
     awb |-> "none",            \* what the carrier answered to the assignment
     rejected |-> << >>,        \* the field errors the carrier answered the order with
     created |-> FALSE,         \* client.create has returned its result
     compensation |-> "none",   \* how the compensating cancel ended
     error |-> NoError,         \* the error client.create or createDocuments threw
     outcome |-> "none",        \* of createFulfillment: "ok" or "error"
     documents |-> NoDocuments]

\* client.create (or createDocuments) throws err; createFulfillment catches it
\* and throws its own error.
Failed(s, err) == [s EXCEPT !.pc = "done", !.error = err, !.outcome = "error"]

\* createFulfillment is called: client.create runs up to its first await.
CreateFulfillment(items, order) ==
    /\ ship.pc = "idle"
    /\ LET prep == Prepare(items, order) IN
       ship' = IF prep.ok
               THEN [Shipment(items, order) EXCEPT !.payload = prep.payload]
               ELSE Failed(Shipment(items, order), prep.error)
    /\ calls' = << >>
    /\ UNCHANGED <<managerVars, trackingVars, estimateVars, frontVars, hookVars>>

\* err.response.data.errors: for each offending field, in the order of the
\* object's keys, the messages the carrier gives for it.
FieldErrors(fields) ==
    [i \in DOMAIN fields |-> [field |-> fields[i], msgs |-> <<"is invalid", "is required">>]]

\* What the carrier answers to POST /orders/create/adhoc.
OrderAnswer(kind, errors) == [kind |-> kind, errors |-> errors]

OrderAnswers ==
    {OrderAnswer("created", << >>),
     OrderAnswer("noShipmentId", << >>),
     OrderAnswer("status500", << >>),
     OrderAnswer("fieldErrors", FieldErrors(<<"billing_phone">>)),
     OrderAnswer("fieldErrors", FieldErrors(<<"billing_phone", "shipping_pincode">>))}

\* The .catch of the order request: Object.values(apiError)[0], its first
\* message, thrown as `Shiprocket: ${msg}`. The carrier's message for a field
\* names that field.
FieldsOfFirstError(errors) == <<errors[1].field>>

OrderRejected(errors) ==
    Error("INVALID_DATA", "Shiprocket: " \o errors[1].msgs[1], FieldsOfFirstError(errors))

\* The order is submitted and answered.
SubmitOrder(axios, answer) ==
    /\ ship.pc = "order"
    /\ calls' = calls \o CallsOf(axios, "POST /orders/create/adhoc")
    /\ ship' =
         IF axios = "loginFails" THEN Failed(ship, LoginError)
         ELSE CASE answer.kind = "created" -> [ship EXCEPT !.pc = "courier"]
                [] answer.kind = "noShipmentId" ->
                     Failed(ship, Error("INVALID_DATA", "no shipment ID returned", "order"))
                [] answer.kind = "fieldErrors" ->
                     Failed([ship EXCEPT !.rejected = answer.errors],
                            OrderRejected(answer.errors))
                [] answer.kind = "status500" ->
                     Failed(ship, Error(HandleError(500), "server error", "create"))
    /\ UNCHANGED <<managerVars, trackingVars, estimateVars, frontVars, hookVars>>

\* How manager.getPreferredCourier ends: a courier from a fresh or a cached
\* estimate, no serviceable courier, or an error thrown.
CourierOutcomes ==
    {"selected", "cached", "notServiceable", "error", "timeout", "authFailure"}
CourierFailures == {"error", "timeout", "authFailure"}

PreferredCourier == 24

\* if (pickupPincode && deliveryPincode)
CourierAsked(order) ==
    /\ Truthy(OrElse(Get(order.shipping, "postal_code"), Get(order.shipping, "zip")))
    /\ Truthy(OrElse(Get(order.billing, "postal_code"), Get(order.billing, "zip")))

\* The calls courier preference resolution issues.
CourierCalls(outcome) ==
    CASE outcome = "cached" -> << >>
      [] outcome = "authFailure" -> <<"POST /auth/login">>
      [] OTHER -> <<"GET /courier/serviceability/">>

AfterCourier_FailureAborts(s, outcome) ==
    IF outcome \in CourierFailures
    THEN Failed(s, Error("INVALID_DATA", "Failed to get delivery estimate", "courier"))
    ELSE [s EXCEPT !.pc = "awb", !.courier = outcome,
                   !.courierId = IF outcome \in {"selected", "cached"}
                                 THEN PreferredCourier ELSE 0]

\* try { courierId = await manager.getPreferredCourier(...) } catch { }
AfterCourier(s, outcome) ==
    [s EXCEPT !.pc = "awb", !.courier = outcome,
              !.courierId = IF outcome \in {"selected", "cached"}
                            THEN PreferredCourier ELSE 0]

\* Courier preference resolution, skipped when a postcode is missing.
ResolveCourier(outcome) ==
    /\ ship.pc = "courier"
    /\ IF CourierAsked(ship.order)
       THEN /\ calls' = calls \o CourierCalls(outcome)
            /\ ship' = AfterCourier(ship, outcome)
       ELSE /\ calls' = calls
            /\ ship' = AfterCourier(ship, "skipped")
    /\ UNCHANGED <<managerVars, trackingVars, estimateVars, frontVars, hookVars>>

\* awbPayload: the shipment, and courier_id when a courier was chosen
AwbPayload(courierId) ==
    IF courierId # 0 THEN [shipment_id |-> 1, courier_id |-> courierId]
    ELSE [shipment_id |-> 1]

\* What the carrier answers to POST /courier/assign/awb: awb_assign_status 1,
\* another awb_assign_status, an HTTP error, or nothing.
AwbAnswers == {"assigned", "rejected", "status422", "timeout"}

\* The waybill assignment is requested and answered.
AssignAwb(axios, answer) ==
    /\ ship.pc = "awb"
    /\ calls' = calls \o CallsOf(axios, "POST /courier/assign/awb")
    /\ ship' =
         IF axios = "loginFails" THEN Failed(ship, LoginError)
         ELSE LET s == [ship EXCEPT !.awbPayload = AwbPayload(ship.courierId),
                                   !.awb = answer] IN
              CASE answer = "assigned" -> [s EXCEPT !.pc = "documents", !.created = TRUE]
                [] answer = "rejected" -> [s EXCEPT !.pc = "compensate"]
                [] answer = "status422" ->
                     Failed(s, Error(HandleError(422), "unprocessable", "create"))
                [] answer = "timeout" ->
                     Failed(s, Error(HandleError(0), "timed out", "create"))
    /\ UNCHANGED <<managerVars, trackingVars, estimateVars, frontVars, hookVars>>

(***************************************************************************)
(* ShiprocketClient.cancel                                                 *)
(***************************************************************************)
\* What the carrier answers to POST /orders/cancel: the HTTP status (0: no
\* response) and what the body says.
CancelAnswer(status, says) == [status |-> status, says |-> says]

CancelAnswers ==
    {CancelAnswer(200, "cancelled"),
     CancelAnswer(400, "already cancelled"),
     CancelAnswer(422, "already canceled"),
     CancelAnswer(400, "cannot cancel"),
     CancelAnswer(422, "cannot cancel"),
     CancelAnswer(500, "server error"),
     CancelAnswer(0, "")}

\* messageStr.includes("already cancelled") || messageStr.includes("already canceled")
\*   || error?.response?.status === 400 && messageStr.includes("cannot cancel")
TreatedAsCancelled(r) ==
    \/ r.says = "already cancelled"
    \/ r.says = "already canceled"
    \/ r.status = 400 /\ r.says = "cannot cancel"

\* cancel(orderId): the error it throws, NoError when it returns. An error
\* without a response has no body to search, and the search itself throws.
ClientCancel(axios, r) ==
    IF axios = "loginFails" THEN Error("TypeError", "no response body", "cancel")
    ELSE IF r.status \in 200..299 THEN NoError
    ELSE IF r.status = 0 THEN Error("TypeError", "no response body", "cancel")
    ELSE IF TreatedAsCancelled(r) THEN NoError
    ELSE Error(HandleError(r.status), r.says, "cancel")

NoCourierError ==
    Error("NOT_ALLOWED", "AWB assignment failed - no courier available", "awb")

AfterCompensation_Propagates(s, cancelError) ==
    IF cancelError = NoError THEN Failed(s, NoCourierError) ELSE Failed(s, cancelError)

\* try { await this.cancel(order_id) } catch { }  throw NOT_ALLOWED
AfterCompensation(s, cancelError) == Failed(s, NoCourierError)

\* The assignment was rejected: the remote order is cancelled, then create throws.
CompensateCancel(axios, r) ==
    /\ ship.pc = "compensate"
    /\ calls' = calls \o CallsOf(axios, "POST /orders/cancel")
    /\ LET cancelError == ClientCancel(axios, r) IN
       ship' = AfterCompensation(
                 [ship EXCEPT !.compensation =
                     IF cancelError = NoError THEN "cancelled" ELSE "failed"],
                 cancelError)
    /\ UNCHANGED <<managerVars, trackingVars, estimateVars, frontVars, hookVars>>

\* What the carrier answers to a document request: a link, or an error.
DocumentAnswers == {"url", "error"}

\* safePost(...) then extractUrl(...): the link, "" when the request failed
DocumentLink(answer, name) == IF answer = "url" THEN name ELSE ""

\* createDocuments: the three requests start together, each after its own
\* getSharedAxios(), which share one login when the token is not valid; only
\* the requests themselves are guarded by .catch.
CreateDocuments(axios, manifest, label, invoice) ==
    /\ ship.pc = "documents"
    /\ IF axios = "loginFails"
       THEN /\ calls' = calls \o <<"POST /auth/login">>
            /\ ship' = Failed(ship, LoginError)
       ELSE /\ calls' = calls
                  \o (IF axios = "login" THEN <<"POST /auth/login">> ELSE << >>)
                  \o <<"POST /manifests/generate", "POST /courier/generate/label",
                       "POST /orders/print/invoice">>
            /\ ship' = [ship EXCEPT !.pc = "done", !.outcome = "ok",
                          !.documents = [manifest |-> DocumentLink(manifest, "manifest_url"),
                                         label |-> DocumentLink(label, "label_url"),
                                         invoice |-> DocumentLink(invoice, "invoice_url")]]
    /\ UNCHANGED <<managerVars, trackingVars, estimateVars, frontVars, hookVars>>

\* A cancelFulfillment call that has entered client.cancel.
Cancellation ==
    [pc |-> "cancel", op |-> "cancelFulfillment", answer |-> CancelAnswer(0, ""),
     axios |-> "none", error |-> NoError, outcome |-> "none"]

\* cancelFulfillment(data): INVALID_DATA without data.order_id, else client.cancel
CancelFulfillment(hasOrderId) ==
    /\ ship.pc = "idle"
    /\ ship' = IF hasOrderId THEN Cancellation
               ELSE Failed(Cancellation,
                           Error("INVALID_DATA", "order_id is required", "order_id"))
    /\ calls' = << >>
    /\ UNCHANGED <<managerVars, trackingVars, estimateVars, frontVars, hookVars>>

\* The cancellation is requested and answered.
CancelAnswered(axios, r) ==
    /\ ship.pc = "cancel"
    /\ calls' = calls \o CallsOf(axios, "POST /orders/cancel")
    /\ LET cancelError == ClientCancel(axios, r)
           s == [ship EXCEPT !.answer = r, !.axios = axios]
       IN ship' = IF cancelError = NoError
                  THEN [s EXCEPT !.pc = "done", !.outcome = "ok"]
                  ELSE Failed(s, cancelError)
    /\ UNCHANGED <<managerVars, trackingVars, estimateVars, frontVars, hookVars>>

InitShipment ==
    /\ ManagerInit /\ TrackingIdle /\ ShipmentIdle
    /\ EstimateIdle /\ DefaultPreference /\ HookIdle /\ FrontIdle /\ TokenConfigured

ShipmentNext ==
    \/ \E items \in ItemLists, order \in Orders : CreateFulfillment(items, order)
    \/ \E axios \in AxiosOutcomes, answer \in OrderAnswers : SubmitOrder(axios, answer)
    \/ \E outcome \in CourierOutcomes : ResolveCourier(outcome)
    \/ \E axios \in AxiosOutcomes, answer \in AwbAnswers : AssignAwb(axios, answer)
    \/ \E axios \in AxiosOutcomes, r \in CancelAnswers : CompensateCancel(axios, r)
    \/ \E axios \in AxiosOutcomes, manifest \in DocumentAnswers,
          label \in DocumentAnswers, invoice \in DocumentAnswers :
           CreateDocuments(axios, manifest, label, invoice)
    \/ \E hasOrderId \in BOOLEAN : CancelFulfillment(hasOrderId)
    \/ \E axios \in AxiosOutcomes, r \in CancelAnswers : CancelAnswered(axios, r)

SpecShipment == InitShipment /\ [][ShipmentNext]_vars

(***************************************************************************)
(* Properties of shipment creation and cancellation                        *)
(***************************************************************************)
RangeOf(seq) == {seq[i] : i \in DOMAIN seq}

Creating == ship.pc # "idle" /\ ship.op = "createFulfillment"

\* The order was handed to the carrier, or is about to be.
Submitted == "POST /orders/create/adhoc" \in RangeOf(calls)

DimensionNames == {"weight", "length", "width", "height"}

\* A dimension as the data carries it: a number other than zero.
Present(x) == x.k = "num" /\ x.v # 0

HasVariant(item) == item.line.k = "obj" /\ item.line.v.variant.k = "obj"

OnProduct(item, f) ==
    LET product == item.line.v.variant.v.product IN
    product.k = "obj" /\ Present(product.v[f])

\* The item has a variant, and some dimension is on neither variant nor product.
LacksDimension(item) ==
    /\ HasVariant(item)
    /\ \E f \in DimensionNames :
          ~Present(item.line.v.variant.v[f]) /\ ~OnProduct(item, f)

\* The variant of the item lacks some dimension.
VariantLacksDimension(item) ==
    /\ HasVariant(item)
    /\ \E f \in DimensionNames : ~Present(item.line.v.variant.v[f])

Unusable(item) == ~HasVariant(item) \/ LacksDimension(item)

FirstUnusable(items) ==
    CHOOSE i \in DOMAIN items :
        Unusable(items[i]) /\ \A j \in 1..(i - 1) : ~Unusable(items[j])

\* C12: when some fulfillment item has no value for weight, length, width or
\* height, createShipment ends with an INVALID_DATA error that carries the
\* title of the first item it cannot use (with the missing-dimensions message
\* when that item is one lacking a dimension), and no call of any kind has
\* been issued.
C12_MissingDimensionFails ==
    (Creating /\ \E i \in DOMAIN ship.items : LacksDimension(ship.items[i])) =>
        LET first == ship.items[FirstUnusable(ship.items)] IN
        /\ ship.pc = "done"
        /\ ship.outcome = "error"
        /\ ship.error.type = "INVALID_DATA"
        /\ ship.error.about = first.title
        /\ LacksDimension(first) => ship.error.message = "Missing dimensions/weight"
        /\ calls = << >>

C12_Witness ==
    /\ Creating
    /\ ship.items = <<Mug, Cup>>
    /\ ship.pc = "done"
    /\ ship.error = Error("INVALID_DATA", "Missing dimensions/weight", "Cup")
    /\ calls = << >>

\* C13: every order payload submitted to the carrier has weight, length,
\* breadth and height all greater than zero, the empty item list included.
C13_SubmittedDimsPositive ==
    (Creating /\ Submitted) =>
        /\ ship.payload.weight.milli > 0
        /\ ship.payload.length > 0
        /\ ship.payload.breadth > 0
        /\ ship.payload.height > 0

\* C14: when the variant of some item lacks weight, length, width or height,
\* createShipment fails before any call, whatever the product carries.
C14_VariantDimsRequired ==
    (Creating /\ \E i \in DOMAIN ship.items : VariantLacksDimension(ship.items[i])) =>
        /\ ship.pc = "done"
        /\ ship.outcome = "error"
        /\ calls = << >>

RECURSIVE SumOf(_)
SumOf(numbers) ==
    IF numbers = << >> THEN 0 ELSE Head(numbers) + SumOf(Tail(numbers))

RECURSIVE MaxOf(_)
MaxOf(numbers) ==
    IF numbers = << >> THEN 0
    ELSE LET rest == MaxOf(Tail(numbers)) IN
         IF Head(numbers) >= rest THEN Head(numbers) ELSE rest

\* The dimension of an item as its data carries it.
Carried(item, f) ==
    LET variant == item.line.v.variant IN
    IF Present(variant.v[f]) THEN variant.v[f].v ELSE variant.v.product.v[f].v

PerItem(items, f) == [i \in DOMAIN items |-> Carried(items[i], f)]
TimesQuantity(items, f) ==
    [i \in DOMAIN items |-> Carried(items[i], f) * items[i].quantity.v]

\* The payload has been built: validation passed.
PayloadBuilt == Creating /\ (ship.pc # "done" \/ calls # << >>)

\* C15: in the payload, weight is the sum of grams x quantity taken as
\* thousandths of a kilogram, length and breadth are the largest item length
\* and width, and height is the sum of height x quantity.
C15_PayloadTotals ==
    PayloadBuilt =>
        /\ ship.payload.weight = Kg(SumOf(TimesQuantity(ship.items, "weight")))
        /\ ship.payload.length = MaxOf(PerItem(ship.items, "length"))
        /\ ship.payload.breadth = MaxOf(PerItem(ship.items, "width"))
        /\ ship.payload.height = SumOf(TimesQuantity(ship.items, "height"))

\* 200 g x 1 and 300 g x 2 give 0.8 kg.
C15_Witness ==
    /\ PayloadBuilt
    /\ ship.items = <<Mug, Pot>>
    /\ ship.payload.weight = Kg(800)
    /\ ship.payload.length = 12
    /\ ship.payload.breadth = 8
    /\ ship.payload.height = 8

\* The value of a payload field is acceptable: not empty, and for a phone ten
\* digits, for a postal code six digits, once non-digits are removed.
Acceptable(order, n) ==
    LET x == FieldValue(order, n) IN
    /\ x.k \notin {"undefined", "null", "empty"}
    /\ n \in PhoneFields => Len(SelectSeq(x.v, IsDigit)) = 10
    /\ n \in PincodeFields => Len(SelectSeq(x.v, IsDigit)) = 6

Fields == RangeOf(FieldOrder)

CancelAttempted ==
    \E i \in DOMAIN calls :
        /\ calls[i] = "POST /courier/assign/awb"
        /\ i < Len(calls)
        /\ calls[Len(calls)] \in {"POST /orders/cancel", "POST /auth/login"}

OrderAccepted ==
    \/ ship.courier # "none"
    \/ ship.error = Error("INVALID_DATA", "no shipment ID returned", "order")

\* C38: whenever createShipment ends in failure after the carrier has accepted
\* the order request (no shipment id returned, the assignment request failing,
\* or the assignment rejected), a cancellation of the created remote order has
\* been attempted.
C38_FailedCreationCancelled ==
    (Creating /\ OrderAccepted /\ ~ship.created
        /\ ship.pc = "done" /\ ship.outcome = "error") => CancelAttempted

\* C18: once the order is created and the waybill assigned, createFulfillment
\* succeeds however the document requests turn out.
C18_DocumentsNeverFail ==
    (Creating /\ ship.created /\ ship.pc = "done") => ship.outcome = "ok"

\* C19: cancelShipment raises no error whenever the carrier's response says
\* "already cancelled" or "cannot cancel", for every HTTP status.
C19_CancelIdempotent ==
    ( /\ ship.pc = "done"
      /\ ship.op = "cancelFulfillment"
      /\ ship.axios \in {"cached", "login"}
      /\ ship.answer.says \in {"already cancelled", "already canceled", "cannot cancel"} )
        => ship.outcome = "ok"

\* C20: when courier preference resolution fails, finds no courier or is
\* skipped, createShipment goes on to the waybill assignment with no courier
\* chosen, and the assignment payload carries no courier_id.
C20_CourierFailureFallsBack ==
    [][ /\ (ship.pc = "courier" /\ ship'.pc # "courier") =>
              /\ ship'.pc = "awb"
              /\ ship'.courier \notin {"selected", "cached"} => ship'.courierId = 0
        /\ (ship.pc = "awb" /\ ship.courier \notin {"selected", "cached"}
              /\ ship'.awb # "none") =>
              DOMAIN ship'.awbPayload = {"shipment_id"} ]_vars

C20_Witness ==
    /\ Creating
    /\ ship.courier = "timeout"
    /\ ship.pc = "documents"
    /\ ship.awbPayload = [shipment_id |-> 1]

\* C21: when the carrier rejects the order with errors on several fields,
\* the error createShipment raises is INVALID_DATA and its message mentions
\* every offending field.
C21_AllFieldsMentioned ==
    (Creating /\ ship.pc = "done" /\ DOMAIN ship.rejected # {}) =>
        /\ ship.error.type = "INVALID_DATA"
        /\ \A i \in DOMAIN ship.rejected :
              ship.rejected[i].field \in RangeOf(ship.error.about)

(***************************************************************************)
(* Delivery estimates: ShiprocketClientManager.getDeliveryEstimate         *)
(***************************************************************************)
MsPerHour == 60 * 60 * 1000

\* The lifetime of a cache entry.
CacheTtl == DELIVERY_ESTIMATE_CACHE_HOURS * MsPerHour

\* The clock advances by half a lifetime at a time.
TickLength == CacheTtl \div 2

\* One more key than the cache has room for, and as many calls.
NumKeys == maxCacheSize + 1
MaxLookups == maxCacheSize + 1

\* The manager's fields other than the clock.
tokenVars == <<cachedToken, authHeader, tokenRefreshPromise, loginCount, promise,
               reactions, loginInFlight, microtasks, pc, op, joined, owner, returned,
               req>>

\* The argument of getDeliveryEstimate. Postcodes are named by numbers and a
\* weight is in thousandths of a kilogram.
EstimateRequest(pickup, weight) ==
    [pickup_postcode |-> pickup, delivery_postcode |-> 0, weight |-> weight,
     cod |-> Undef]

DefaultWeight == Num(500)

\* The requests examined: one per key, and one that leaves the weight out.
EstimateRequests ==
    {EstimateRequest(i, DefaultWeight) : i \in 1..NumKeys}
    \cup {EstimateRequest(1, Undef)}

\* cacheKey: `${pickup}-${delivery}-${weight}-${cod}` with weight || 0.5 and
\* cod || 0, as the list of its four parts.
CacheKey(data) ==
    <<data.pickup_postcode, data.delivery_postcode,
      OrElse(data.weight, DefaultWeight).v, OrElse(data.cod, Num(0)).v>>

\* A courier of available_courier_companies; estimated_delivery_days is a
\* string of characters.
Courier(id, rate, days) ==
    [courier_company_id |-> id, rate |-> rate, estimated_delivery_days |-> days]

CourierCatalog ==
    {Courier(1, 50, <<"3">>), Courier(2, 30, <<"1">>), Courier(3, 30, <<"1">>),
     Courier(4, 40, <<"0">>), Courier(5, 60, <<"N", "A">>),
     Courier(6, 70, <<"1", "2", "0">>)}

\* Every list of at most MaxCouriers distinct couriers.
CourierLists ==
    UNION {{l \in [1..n -> CourierCatalog] :
               \A i, j \in 1..n : i # j => l[i] # l[j]} : n \in 0..MaxCouriers}

DigitChars == <<"0", "1", "2", "3", "4", "5", "6", "7", "8", "9">>
DigitValue(c) == (CHOOSE i \in DOMAIN DigitChars : DigitChars[i] = c) - 1

RECURSIVE LeadingDigits(_)
LeadingDigits(chars) ==
    IF chars # << >> /\ IsDigit(Head(chars))
    THEN <<Head(chars)>> \o LeadingDigits(Tail(chars))
    ELSE << >>

RECURSIVE DecimalValue(_)
DecimalValue(digits) ==
    IF digits = << >> THEN 0
    ELSE DecimalValue(SubSeq(digits, 1, Len(digits) - 1)) * 10
         + DigitValue(digits[Len(digits)])

\* parseInt(x): the number its leading digits spell, NaN when it has none
ParseInt(chars) ==
    IF LeadingDigits(chars) = << >> THEN NaN
    ELSE Num(DecimalValue(LeadingDigits(chars)))

UnparsableDays == 99

\* parseInt(a.estimated_delivery_days) || 99
FastKey(courier) ==
    OrElse(ParseInt(courier.estimated_delivery_days), Num(UnparsableDays)).v

\* What the comparator of the sort subtracts: a.rate, or the days key.
SortKey(courier, preference) ==
    IF preference = "CHEAP" THEN courier.rate ELSE FastKey(courier)

\* [...couriers].sort(comparator): the sort is stable.
RECURSIVE InsertCourier(_, _, _)
InsertCourier(courier, sorted, preference) ==
    IF sorted = << >> THEN <<courier>>
    ELSE IF SortKey(Head(sorted), preference) <= SortKey(courier, preference)
    THEN <<Head(sorted)>> \o InsertCourier(courier, Tail(sorted), preference)
    ELSE <<courier>> \o sorted

RECURSIVE SortCouriers(_, _, _)
SortCouriers(couriers, sorted, preference) ==
    IF couriers = << >> THEN sorted
    ELSE SortCouriers(Tail(couriers),
                      InsertCourier(Head(couriers), sorted, preference), preference)

\* selectedCourier
SelectCourier(couriers, preference) == SortCouriers(couriers, << >>, preference)[1]

\* The result for an empty courier list.
NotServiceable(preference) ==
    [serviceable |-> FALSE, preference |-> preference, courier_company_id |-> Null,
     estimated_delivery_days |-> Null, rate |-> Null, courier_count |-> 0]

\* The result getDeliveryEstimate builds from the couriers of the answer.
EstimateResult(couriers, preference) ==
    IF Len(couriers) = 0 THEN NotServiceable(preference)
    ELSE LET selected == SelectCourier(couriers, preference) IN
         [serviceable |-> TRUE, preference |-> preference,
          courier_company_id |-> Num(selected.courier_company_id),
          estimated_delivery_days |->
              OrElse(ParseInt(selected.estimated_delivery_days), Null),
          rate |-> Num(selected.rate),
          courier_count |-> Len(couriers)]

\* The position of the key in the cache, 0 when it has no entry.
CacheIndex(cache, key) ==
    IF \E i \in DOMAIN cache : cache[i].key = key
    THEN CHOOSE i \in DOMAIN cache : cache[i].key = key
    ELSE 0

\* if (size >= maxCacheSize) delete(keys().next().value)
Evict(cache) == IF Len(cache) >= maxCacheSize THEN Tail(cache) ELSE cache

\* Map.set: a key already present keeps its place, a new one goes last.
CacheSet(cache, key, entry) ==
    LET i == CacheIndex(cache, key)
        e == [key |-> key, response |-> entry.response, expiresAt |-> entry.expiresAt]
    IN IF i # 0 THEN [cache EXCEPT ![i] = e] ELSE Append(cache, e)

StoreResult_PositiveOnly(cache, key, result, t) ==
    IF result.serviceable
    THEN CacheSet(cache, key, [response |-> result, expiresAt |-> t + CacheTtl])
    ELSE cache

\* deliveryEstimateCache.set(cacheKey, {response: result, expiresAt: ...})
StoreResult(cache, key, result, t) ==
    CacheSet(cache, key, [response |-> result, expiresAt |-> t + CacheTtl])

\* getDeliveryEstimate(data) up to its return from the cache or its request:
\* ensureToken, the eviction, the cache check.
GetDeliveryEstimate(p, data, token) ==
    /\ estimate[p].pc = "idle"
    /\ lookups < MaxLookups
    /\ lookups' = lookups + 1
    /\ LET key == CacheKey(data)
           cache == Evict(deliveryEstimateCache)
           i == CacheIndex(cache, key)
       IN IF token = "loginFails"
          THEN /\ estimated' = [via |-> "error", key |-> key, error |-> LoginError]
               /\ UNCHANGED <<deliveryEstimateCache, estimate>>
          ELSE /\ deliveryEstimateCache' = cache
               /\ IF i # 0 /\ now < cache[i].expiresAt
                  THEN /\ estimated' = [via |-> "cache", key |-> key,
                                        result |-> cache[i].response]
                       /\ UNCHANGED estimate
                  ELSE /\ estimated' = NoEstimated
                       /\ estimate' = [estimate EXCEPT ![p] = [pc |-> "fetch", key |-> key]]
    /\ UNCHANGED <<deliveryPreference, managerVars, trackingVars, shipmentVars, hookVars,
                   frontVars>>

\* What GET /courier/serviceability/ answers: a list of couriers, or an error.
ServiceabilityAnswer(kind, couriers) == [kind |-> kind, couriers |-> couriers]

ServiceabilityAnswers ==
    {ServiceabilityAnswer("couriers", << >>),
     ServiceabilityAnswer("couriers", <<Courier(1, 50, <<"3">>)>>),
     ServiceabilityAnswer("error", << >>)}

\* The request is answered: the result is built and cached, or the error thrown.
ServiceabilityResponse(p, answer) ==
    /\ estimate[p].pc = "fetch"
    /\ estimate' = [estimate EXCEPT ![p] = NoEstimate]
    /\ LET key == estimate[p].key
           result == EstimateResult(answer.couriers, deliveryPreference)
       IN IF answer.kind = "error"
          THEN /\ estimated' = [via |-> "error", key |-> key,
                                error |-> Error("INVALID_DATA",
                                                "Failed to get delivery estimate",
                                                "estimate")]
               /\ UNCHANGED deliveryEstimateCache
          ELSE /\ estimated' = [via |-> "network", key |-> key, result |-> result,
                                couriers |-> answer.couriers]
               /\ deliveryEstimateCache' =
                      StoreResult(deliveryEstimateCache, key, result, now)
    /\ UNCHANGED <<lookups, deliveryPreference, managerVars, trackingVars,
                   shipmentVars, hookVars, frontVars>>

\* Time passes between two turns of the event loop.
EstimateTick ==
    /\ now + TickLength <= MaxTicks * TickLength
    /\ now' = now + TickLength
    /\ estimated' = NoEstimated
    /\ UNCHANGED <<deliveryEstimateCache, deliveryPreference, estimate, lookups,
                   tokenVars, trackingVars, shipmentVars, hookVars, frontVars>>

InitEstimate ==
    /\ ManagerInit /\ TrackingIdle /\ ShipmentIdle
    /\ EstimateIdle /\ DefaultPreference /\ HookIdle /\ FrontIdle /\ TokenConfigured

EstimateNext ==
    \/ \E p \in Callers, data \in EstimateRequests, token \in AxiosOutcomes :
           GetDeliveryEstimate(p, data, token)
    \/ \E p \in Callers, answer \in ServiceabilityAnswers :
           ServiceabilityResponse(p, answer)
    \/ EstimateTick

SpecEstimate == InitEstimate /\ [][EstimateNext]_vars

\* The selection of a courier, for either preference and every list of
\* couriers: one caller asking for one route.
Preferences == {"FAST", "CHEAP"}

InitSelection ==
    /\ ManagerInit /\ TrackingIdle /\ ShipmentIdle
    /\ EstimateIdle /\ deliveryPreference \in Preferences /\ HookIdle /\ FrontIdle /\ TokenConfigured

SelectionNext ==
    \/ \E data \in {EstimateRequest(1, DefaultWeight)} :
           GetDeliveryEstimate(1, data, "cached")
    \/ \E couriers \in CourierLists :
           ServiceabilityResponse(1, ServiceabilityAnswer("couriers", couriers))

SpecSelection == InitSelection /\ [][SelectionNext]_vars

(***************************************************************************)
(* Properties of the delivery estimates                                    *)
(***************************************************************************)
\* The cache holds an entry for the key that has not expired at time t.
FreshEntry(cache, key, t) ==
    \E i \in DOMAIN cache : cache[i].key = key /\ t < cache[i].expiresAt

\* Caller p starts a lookup that goes to the network / the step is a lookup
\* answered from the cache.
GoesToNetwork(p) == estimate[p].pc = "idle" /\ estimate'[p].pc = "fetch"
AnsweredFromCache == lookups' = lookups + 1 /\ estimated'.via = "cache"

\* C22: a lookup issues a serviceability call only when the cache holds no
\* unexpired entry for its key, and is answered from the cache only when it
\* holds one.
C22_CallIffNoFreshEntry ==
    [][ /\ \A p \in Callers :
              GoesToNetwork(p) =>
                  ~FreshEntry(deliveryEstimateCache, estimate'[p].key, now)
        /\ AnsweredFromCache =>
              FreshEntry(deliveryEstimateCache, estimated'.key, now) ]_vars

\* C23: the cache never holds more entries than its capacity.
C23_CacheWithinCapacity == Len(deliveryEstimateCache) <= maxCacheSize

KeysOf(cache) == {cache[i].key : i \in DOMAIN cache}

\* C24: only the first-inserted key is ever evicted, and a lookup answered
\* from the cache leaves the cache, and so the eviction order, as it was.
C24_FifoEvictionOnInsert ==
    [][ /\ \A k \in KeysOf(deliveryEstimateCache) \ KeysOf(deliveryEstimateCache') :
              k = deliveryEstimateCache[1].key
        /\ AnsweredFromCache => deliveryEstimateCache' = deliveryEstimateCache ]_vars

Selected(r) ==
    CHOOSE i \in DOMAIN r.couriers :
        r.couriers[i].courier_company_id = r.result.courier_company_id.v

Parsable(courier) == ParseInt(courier.estimated_delivery_days).k = "num"
DaysOf(courier) == ParseInt(courier.estimated_delivery_days).v

\* C26: with CHEAP the selected courier has the lowest rate, with FAST the
\* lowest estimated delivery days among the couriers that have a number, and
\* among equals it is the earliest of the list.
C26_SelectsMinimum ==
    (estimated.via = "network" /\ Len(estimated.couriers) > 0) =>
        LET cs == estimated.couriers
            s == Selected(estimated)
        IN IF deliveryPreference = "CHEAP"
           THEN \A i \in DOMAIN cs :
                    \/ cs[s].rate < cs[i].rate
                    \/ cs[s].rate = cs[i].rate /\ s <= i
           ELSE \A i \in DOMAIN cs :
                    Parsable(cs[i]) =>
                        /\ Parsable(cs[s])
                        /\ \/ DaysOf(cs[s]) < DaysOf(cs[i])
                           \/ DaysOf(cs[s]) = DaysOf(cs[i]) /\ s <= i

\* C27: with FAST, a courier whose days cannot be parsed is selected only when
\* no courier of the list has days that can.
C27_UnparsableLast ==
    ( /\ estimated.via = "network"
      /\ Len(estimated.couriers) > 0
      /\ deliveryPreference = "FAST"
      /\ \E i \in DOMAIN estimated.couriers : Parsable(estimated.couriers[i]) ) =>
          Parsable(estimated.couriers[Selected(estimated)])


(***************************************************************************)
(* The webhook route (api/hooks/fulfillment/shiprocket/route.ts)           *)
(***************************************************************************)
\* The characters of the header and of the secret. "U+00E9" stands for the one
\* character e-acute, which Buffer.from(text, 'utf8') encodes in two bytes.
Utf8Width(c) == IF c = "U+00E9" THEN 2 ELSE 1

\* Buffer.from(chars, 'utf8').length
RECURSIVE ByteLength(_)
ByteLength(chars) ==
    IF Len(chars) = 0 THEN 0 ELSE Utf8Width(Head(chars)) + ByteLength(Tail(chars))

\* constantTimeCompare(a, b): unequal .length gives false; crypto.timingSafeEqual
\* throws a RangeError when the two buffers differ in byte length, and compares
\* the bytes otherwise.
ConstantTimeCompare(a, b) ==
    IF Len(a) # Len(b) THEN "false"
    ELSE IF ByteLength(a) # ByteLength(b) THEN "throws"
    ELSE IF \A i \in DOMAIN a : a[i] = b[i] THEN "true" ELSE "false"

\* process.env.SHIPROCKET_WEBHOOK_TOKEN: not set, or a secret
WebhookTokens == {<< >>, <<"k", "e", "y">>}

\* req.headers["x-api-key"]: absent, empty, the secret, and strings that differ
\* from it in a character, in length, or in a character outside ASCII.
XApiKeys ==
    {Undef, EmptyStr, Str(<<"k", "e", "y">>), Str(<<"k", "e", "x">>),
     Str(<<"k", "e">>), Str(<<"k", "U+00E9", "y">>)}

\* Lines 59-78: what the token check does with the header.
Authorize(header) ==
    IF Len(webhookToken) = 0 THEN "unconfigured"
    ELSE IF ~Truthy(header) THEN "unauthorized"
    ELSE LET same == ConstantTimeCompare(header.v, webhookToken)
         IN IF same = "true" THEN "pass"
            ELSE IF same = "false" THEN "unauthorized"
            ELSE "throws"

\* A request body without awb.
NoAwbBody == [courier_name |-> Str("Bluedart")]

WebhookBodies == {PushPayload(a, FALSE) : a \in Awbs} \cup {NoAwbBody}

\* res.status(status).json({success, error}) for the request with this header
\* and body.
Response(status, error, header, payload) ==
    [status |-> status, error |-> error, header |-> header, payload |-> payload]

\* The route answers without calling the tracking service.
Reject(h, status, error, header, payload) ==
    /\ responded' = Response(status, error, header, payload)
    /\ upserted' = NoUpserted
    /\ UNCHANGED <<store, upsert, upserts, webhookToken, hook, events>>
    /\ UNCHANGED <<managerVars, shipmentVars, estimateVars, frontVars>>

\* POST up to its first await: the token check, the awb check, the mapping of
\* the payload and the call of trackingService.upsertByAwb.
Post(h, header, payload) ==
    /\ hook[h].pc = "idle"
    /\ LET checked == Authorize(header)
       IN CASE checked = "unconfigured" ->
                 Reject(h, 500, "Webhook not configured", header, payload)
            [] checked = "unauthorized" ->
                 Reject(h, 401, "Unauthorized", header, payload)
            [] checked = "throws" ->
                 Reject(h, 500, "Internal server error", header, payload)
            [] OTHER ->
                 IF ~Truthy(Get(payload, "awb"))
                 THEN Reject(h, 400, "Invalid payload - missing AWB", header, payload)
                 ELSE /\ CallUpsertByAwb(h, "push", PushData(payload))
                      /\ hook' = [hook EXCEPT ![h] = [pc |-> "upsert", header |-> header,
                                                      payload |-> payload]]
                      /\ responded' = NoResponded
                      /\ UNCHANGED <<webhookToken, events>>

\* The list query of the upsertByAwb call the route awaits.
HookList(h) ==
    /\ hook[h].pc = "upsert"
    /\ ListShiprocketTrackings(h)
    /\ responded' = NoResponded
    /\ UNCHANGED <<webhookToken, hook, events>>

\* The payload of the "shiprocket.tracking.updated" event.
Event(payload, id) ==
    [awb |-> Get(payload, "awb"), tracking_id |-> id,
     current_status |-> Get(payload, "current_status"),
     shipment_status_id |-> Get(payload, "shipment_status_id")]

\* What req.scope.resolve gives for the event bus: nothing (both names throw), an
\* object without emit, or a bus.
EventBuses == {"missing", "noEmit", "bus"}

\* if (eventBus && eventBus.emit)
Emits(bus) == bus = "bus"

\* upsertByAwb writes the row and returns it; the route resumes and runs to its
\* next await: it resolves the event bus and calls emit, or answers 200 when
\* there is nothing to call.
AfterUpsert(h, bus) ==
    /\ hook[h].pc = "upsert"
    /\ UpdateShiprocketTrackings(h) \/ CreateShiprocketTrackings(h)
    /\ IF Emits(bus)
       THEN /\ events' = Append(events, Event(hook[h].payload, upserted'.row.id))
            /\ hook' = [hook EXCEPT ![h].pc = "emit"]
            /\ responded' = NoResponded
       ELSE /\ events' = events
            /\ hook' = [hook EXCEPT ![h] = NoHook]
            /\ responded' = Response(200, "none", hook[h].header, hook[h].payload)
    /\ UNCHANGED webhookToken

\* The status answered once the promise of emit has settled: the inner catch
\* logs a rejection.
StatusAfterEmit_Propagates(ok) == IF ok THEN 200 ELSE 500
StatusAfterEmit(ok) == 200

\* await eventBus.emit(...) settles: the route answers.
EmitSettles(h, ok) ==
    /\ hook[h].pc = "emit"
    /\ hook' = [hook EXCEPT ![h] = NoHook]
    /\ responded' = Response(StatusAfterEmit(ok),
                             IF StatusAfterEmit(ok) = 200 THEN "none"
                             ELSE "Internal server error",
                             hook[h].header, hook[h].payload)
    /\ upserted' = NoUpserted
    /\ UNCHANGED <<store, upsert, upserts, webhookToken, events>>
    /\ UNCHANGED <<managerVars, shipmentVars, estimateVars, frontVars>>

\* A query of upsertByAwb rejects: the outer catch answers 500.
UpsertRejects(h) ==
    /\ hook[h].pc = "upsert"
    /\ upsert[h].pc \in {"list", "write"}
    /\ upsert' = [upsert EXCEPT ![h] = NoUpsert]
    /\ upserted' = NoUpserted
    /\ hook' = [hook EXCEPT ![h] = NoHook]
    /\ responded' = Response(500, "Internal server error", hook[h].header,
                             hook[h].payload)
    /\ UNCHANGED <<store, upserts, webhookToken, events>>
    /\ UNCHANGED <<managerVars, shipmentVars, estimateVars, frontVars>>

InitWebhook ==
    /\ ManagerInit /\ TrackingIdle /\ ShipmentIdle
    /\ EstimateIdle /\ DefaultPreference /\ HookIdle /\ FrontIdle
    /\ webhookToken \in WebhookTokens

WebhookNext ==
    \/ \E h \in Handlers, header \in XApiKeys, payload \in WebhookBodies :
           Post(h, header, payload)
    \/ \E h \in Handlers : HookList(h)
    \/ \E h \in Handlers, bus \in EventBuses : AfterUpsert(h, bus)
    \/ \E h \in Handlers, ok \in BOOLEAN : EmitSettles(h, ok)
    \/ \E h \in Handlers : UpsertRejects(h)

SpecWebhook == InitWebhook /\ [][WebhookNext]_vars

(***************************************************************************)
(* The external order id and its recovery                                  *)
(***************************************************************************)
\* String(n) for a non-negative integer
RECURSIVE ToDigits(_)
ToDigits(n) ==
    IF n < 10 THEN <<DigitChars[n + 1]>>
    ELSE ToDigits(n \div 10) \o <<DigitChars[(n % 10) + 1]>>

\* ShiprocketClient.create: order_id = `${order.id}-${Math.floor(Date.now() / 1000)}`
ExternalOrderId(id, seconds) == id \o <<"-">> \o ToDigits(seconds)

\* Host order ids, with and without dashes and digits, and creation times.
HostOrderIds == {<<"o">>, <<"o", "-", "1">>, <<"o", "-", "x">>, <<"7">>}
Timestamps == {0, 17}

\* Order ids of a callback that createShipment did not build.
ForeignOrderIds == {<<"o", "-">>, <<"o", "-", "1", "x">>, <<"o", "1">>}

OrderIds ==
    {ExternalOrderId(id, t) : id \in HostOrderIds, t \in Timestamps}
    \cup HostOrderIds \cup ForeignOrderIds

WithOrderId(payload, id) == [payload EXCEPT !.order_id = Str(id)]

\* One handler serves authorized callbacks for one waybill whose order id varies.
InitOrderId ==
    /\ ManagerInit /\ TrackingIdle /\ ShipmentIdle
    /\ EstimateIdle /\ DefaultPreference /\ HookIdle /\ FrontIdle /\ TokenConfigured

OrderIdNext ==
    \/ \E id \in OrderIds :
           Post(1, Str(webhookToken), WithOrderId(PushPayload("AWB1", FALSE), id))
    \/ HookList(1)
    \/ \E bus \in EventBuses : AfterUpsert(1, bus)
    \/ \E ok \in BOOLEAN : EmitSettles(1, ok)

SpecOrderId == InitOrderId /\ [][OrderIdNext]_vars

(***************************************************************************)
(* Properties of the webhook route (checked under SpecWebhook)             *)
(***************************************************************************)
SecretConfigured == Len(webhookToken) > 0

\* The x-api-key header is the configured secret.
HeaderIsSecret(header) ==
    /\ header.k = "str"
    /\ Len(header.v) = Len(webhookToken)
    /\ \A i \in DOMAIN header.v : header.v[i] = webhookToken[i]

Answered == responded'.status # 0

\* A request enters upsertByAwb, or an event is emitted, only with the secret.
OnlyWithSecret ==
    \A h \in Handlers :
        (hook[h].pc = "idle" /\ hook'[h].pc # "idle") =>
            SecretConfigured /\ HeaderIsSecret(hook'[h].header)

\* Without a secret every request is answered 500 "Webhook not configured".
UnconfiguredIs500 ==
    (Answered /\ ~SecretConfigured) =>
        responded'.status = 500 /\ responded'.error = "Webhook not configured"

\* With a secret, a request whose header is missing or different is answered 401.
DifferentIs401 ==
    (Answered /\ SecretConfigured /\ ~HeaderIsSecret(responded'.header)) =>
        responded'.status = 401

\* A request refused for its secret leaves the table and the calls alone.
RefusedWritesNothing ==
    (Answered /\ (~SecretConfigured \/ ~HeaderIsSecret(responded'.header))) =>
        UNCHANGED <<store, upsert, upserts, events>>

\* C28: the webhook upserts a tracking record and emits an event only when a
\* secret is configured and the x-api-key header equals it; with no secret
\* configured every request is answered 500 whatever its header, with a missing
\* or different header the answer is 401, and in both cases no tracking record is
\* created or changed.
C28_SecretGuardsUpsert ==
    [][OnlyWithSecret /\ UnconfiguredIs500 /\ DifferentIs401
       /\ RefusedWritesNothing]_vars

\* The table holds a row for the waybill of the payload.
Stored(table, payload) ==
    \E i \in DOMAIN table : table[i].col["awb"].v = Get(payload, "awb").v

\* The step in which upsertByAwb returns to the route.
UpsertReturned == upserted'.kind # "none" /\ upserted'.src = "push"

\* The step adds an event: it is the one in which the upsert returned, and the
\* event carries the waybill and status of the payload and the id of the row
\* written.
EmittedAfterUpsert ==
    Len(events') > Len(events) =>
        /\ UpsertReturned
        /\ Len(events') = Len(events) + 1
        /\ LET event == events'[Len(events')]
               row == upserted'.row
           IN /\ event.awb.v = row.col["awb"].v
              /\ event.tracking_id = row.id
              /\ event.current_status.v = upserted'.data["current_status"].v
              /\ \E i \in DOMAIN store' : store'[i].id = event.tracking_id

\* A request whose upsert returned is answered 200, with or without a bus to
\* emit on and however the publish ends, and its row is in the table.
AcknowledgedOnceStored ==
    \A h \in Handlers :
        /\ (hook[h].pc = "upsert" /\ UpsertReturned /\ hook'[h].pc = "idle") =>
               responded'.status = 200 /\ Stored(store', hook[h].payload)
        /\ (hook[h].pc = "emit" /\ hook'[h].pc = "idle") =>
               responded'.status = 200 /\ Stored(store', hook[h].payload)

\* C30: on the push path the event carrying the waybill and the new status is
\* emitted only after the upsert has succeeded, and a missing event bus or a
\* failing publish leaves the acknowledgment a success (200) with the tracking
\* record stored.
C30_EventAfterUpsert == [][EmittedAfterUpsert /\ AcknowledgedOnceStored]_vars

\* A callback was acknowledged with 200 after emit was called for its row.
C30_Witness ==
    /\ responded.status = 200
    /\ Len(events) > 0
    /\ Stored(store, responded.payload)
    /\ \E i \in DOMAIN store : store[i].id = events[Len(events)].tracking_id

(***************************************************************************)
(* Properties of the order id recovery (checked under SpecOrderId)         *)
(***************************************************************************)
\* The string ends in a dash followed by one or more digits and nothing else.
HasDigitSuffix(chars) ==
    \E k \in DOMAIN chars :
        /\ chars[k] = "-"
        /\ k < Len(chars)
        /\ \A j \in (k + 1)..Len(chars) : IsDigit(chars[j])

PushCall(h) == upsert[h].pc # "idle" /\ upsert[h].src = "push"

\* C29: for every host order id h and creation timestamp t, the webhook route
\* recovers exactly h from the external order id "h-t" that createShipment
\* builds; and an order id with no trailing -<digits> segment is passed on
\* unchanged.
C29_OrderIdRoundTrip ==
    \A h \in Handlers : PushCall(h) =>
        LET sent == upsert[h].data["order_id"].v
            got == upsert[h].data["medusa_order_id"]
        IN /\ got.k = "str"
           /\ \A id \in HostOrderIds, t \in Timestamps :
                  sent = ExternalOrderId(id, t) => got.v = id
           /\ ~HasDigitSuffix(sent) => got.v = sent

\* A callback for an order whose host id itself has a dash and a digit segment
\* was stored with the host id recovered.
C29_Witness ==
    \E i \in DOMAIN store :
        /\ store[i].col["order_id"].v = ExternalOrderId(<<"o", "-", "1">>, 17)
        /\ store[i].col["medusa_order_id"].v = <<"o", "-", "1">>

(***************************************************************************)
(* The rate limiter of the delivery-estimate route                         *)
(***************************************************************************)
\* new RateLimiter(30, 60 * 1000): the length of a window
windowMs == 60 * 1000

\* The clock advances by a third of a window.
LimiterTickLength == windowMs \div 3

Entry(count, windowStart) == [count |-> count, windowStart |-> windowStart]

\* now - entry.windowStart > this.windowMs
WindowExpired(entry, t) == t - entry.windowStart > windowMs

\* cleanup(): the entries whose window has not expired
Cleanup(map, t) ==
    [c \in {d \in DOMAIN map : ~WindowExpired(map[d], t)} |-> map[c]]

\* if (this.requests.size >= this.maxCacheSize) this.cleanup()
Swept(map, t) ==
    IF Cardinality(DOMAIN map) >= limiterCacheSize THEN Cleanup(map, t) ELSE map

\* this.requests.set(identifier, entry)
SetEntry(map, id, entry) ==
    [c \in DOMAIN map \cup {id} |-> IF c = id THEN entry ELSE map[c]]

\* entry.count >= this.maxRequests
AtLimit_OneMore(entry) == entry.count > maxRequests
AtLimit(entry) == entry.count >= maxRequests

\* return false: the map a refused request leaves
Refused_Counted(map, id) ==
    SetEntry(map, id, Entry(map[id].count + 1, map[id].windowStart))
Refused(map, id) == map

\* isAllowed(identifier) at instant t: its answer and the map it leaves
IsAllowed(map, id, t) ==
    LET swept == Swept(map, t)
    IN IF id \notin DOMAIN swept \/ WindowExpired(swept[id], t)
       THEN [allowed |-> TRUE, map |-> SetEntry(swept, id, Entry(1, t))]
       ELSE IF AtLimit(swept[id])
       THEN [allowed |-> FALSE, map |-> Refused(swept, id)]
       ELSE [allowed |-> TRUE,
             map |-> SetEntry(swept, id, Entry(swept[id].count + 1,
                                               swept[id].windowStart))]

\* Math.max(0, x)
AtLeastZero(x) == IF x < 0 THEN 0 ELSE x

\* Math.ceil(ms / 1000) for ms >= 0
CeilSeconds(ms) == (ms + 999) \div 1000

\* getRemaining(identifier)
GetRemaining(map, id, t) ==
    IF id \notin DOMAIN map \/ WindowExpired(map[id], t) THEN maxRequests
    ELSE AtLeastZero(maxRequests - map[id].count)

\* getResetTime(identifier)
GetResetTime(map, id, t) ==
    IF id \notin DOMAIN map THEN 0
    ELSE CeilSeconds(AtLeastZero(map[id].windowStart + windowMs - t))

\* The accepted instants kept for an identifier: the latest maxRequests + 1.
Latest(times) ==
    IF Len(times) > maxRequests + 1 THEN Tail(times) ELSE times

\* GET up to the end of the rate limiting check: 429 with the time to wait when
\* the limiter refuses, else the route goes on with the remaining allowance.
RateLimitedGet(c) ==
    LET answer == IsAllowed(requests, c, now)
    IN /\ requests' = answer.map
       /\ limited' =
            IF answer.allowed
            THEN [client |-> c, allowed |-> TRUE, status |-> 0,
                  remaining |-> GetRemaining(answer.map, c, now), reset |-> 0]
            ELSE [client |-> c, allowed |-> FALSE, status |-> 429,
                  remaining |-> 0, reset |-> GetResetTime(answer.map, c, now)]
       /\ recent' = IF answer.allowed
                    THEN [recent EXCEPT ![c] = Latest(Append(@, now))]
                    ELSE recent
       /\ UNCHANGED <<managerVars, trackingVars, shipmentVars, estimateVars,
                      hookVars, track, thrown>>

\* setInterval(() => this.cleanup(), 5 * 60 * 1000)
CleanupTimer ==
    /\ requests' = Cleanup(requests, now)
    /\ limited' = NoLimited
    /\ UNCHANGED <<recent, managerVars, trackingVars, shipmentVars, estimateVars,
                   hookVars, track, thrown>>

\* Time passes between two requests.
LimiterTick ==
    /\ now + LimiterTickLength <= MaxLimiterTicks * LimiterTickLength
    /\ now' = now + LimiterTickLength
    /\ limited' = NoLimited
    /\ UNCHANGED <<requests, recent, tokenVars, trackingVars, shipmentVars,
                   estimateVars, hookVars, track, thrown>>

InitLimiter ==
    /\ ManagerInit /\ TrackingIdle /\ ShipmentIdle
    /\ EstimateIdle /\ DefaultPreference /\ HookIdle /\ FrontIdle /\ TokenConfigured

LimiterNext ==
    \/ \E c \in Clients : RateLimitedGet(c)
    \/ CleanupTimer
    \/ LimiterTick

SpecLimiter == InitLimiter /\ [][LimiterNext]_vars

(***************************************************************************)
(* The public tracking query (api/store/shiprocket/tracking/[awb])         *)
(***************************************************************************)
\* auth_context?.actor_id: no authenticated requester, or a customer
Actors == {Undef, Str("cus_1"), Str("cus_2")}

\* How orderModule.retrieveOrder ends: with the order and its customer_id (null
\* for a guest order), or with an error: the order reported as not found, any
\* other failure, or a thrown value that has no message.
OrderOf(customer) == [kind |-> "order", customer_id |-> customer]
OrderError(kind) == [kind |-> kind]
OrderLookups ==
    {OrderOf(Str("cus_1")), OrderOf(Null),
     OrderError("notFound"), OrderError("failure"), OrderError("noMessage")}

\* The fields of the row the route puts in its answer.
PublicFields ==
    {"awb", "courier_name", "current_status", "current_status_id", "shipment_status",
     "shipment_status_id", "current_timestamp", "etd", "is_return", "pod_status",
     "scans"}

\* res.status(status).json(...): with the tracking fields, or with an error.
TrackingShown(row) ==
    [status |-> 200, shown |-> TRUE, tracking |-> [f \in PublicFields |-> row.col[f]]]
TrackingRefused(status, error) ==
    [status |-> status, shown |-> FALSE, error |-> error]

\* order.customer_id && order.customer_id !== actorId
NotOwner_AnonymousOnly(order, actor) ==
    Truthy(order.customer_id) /\ actor.k = "undefined"
NotOwner(order, actor) ==
    /\ Truthy(order.customer_id)
    /\ \/ order.customer_id.k # actor.k
       \/ order.customer_id.v # actor.v

\* The route's answer once the ownership check has ended.
AfterRetrieveOrder(row, lookup, actor) ==
    CASE lookup.kind = "order" ->
           IF NotOwner(lookup, actor)
           THEN TrackingRefused(403, "Access denied. You do not own this order.")
           ELSE TrackingShown(row)
      [] lookup.kind = "failure" ->
           TrackingRefused(403, "Access denied. Unable to verify order ownership.")
      [] lookup.kind = "notFound" -> TrackingShown(row)
      [] OTHER -> TrackingRefused(500, "Internal server error")

\* GET up to the order lookup: 400 without an awb, 404 without a row, the fields
\* at once for a row with no linked order, else the lookup is awaited.
GetTracking(actor, awb) ==
    /\ track.pc = "idle"
    /\ \A h \in Handlers : upsert[h].pc = "idle"
    /\ IF ~Truthy(awb)
       THEN track' = [pc |-> "done", actor |-> actor,
                      answer |-> TrackingRefused(400, "AWB parameter is required")]
       ELSE IF RowsOfAwb(awb) = {}
       THEN track' = [pc |-> "done", actor |-> actor,
                      answer |-> TrackingRefused(404, "Tracking not found")]
       ELSE \E i \in RowsOfAwb(awb) :
              IF Truthy(store[i].col["medusa_order_id"])
              THEN track' = [pc |-> "verify", actor |-> actor, tracking |-> store[i]]
              ELSE track' = [pc |-> "done", actor |-> actor, tracking |-> store[i],
                             answer |-> TrackingShown(store[i])]
    /\ upserted' = NoUpserted
    /\ UNCHANGED <<store, upsert, upserts, managerVars, shipmentVars, estimateVars,
                   hookVars, limiterVars, thrown>>

\* orderModule.retrieveOrder settles and the route answers.
RetrieveOrder(lookup) ==
    /\ track.pc = "verify"
    /\ track' = [pc |-> "done", actor |-> track.actor, tracking |-> track.tracking,
                 lookup |-> lookup,
                 answer |-> AfterRetrieveOrder(track.tracking, lookup, track.actor)]
    /\ UNCHANGED <<trackingVars, managerVars, shipmentVars, estimateVars, hookVars,
                   limiterVars, thrown>>

\* The awb the query names: one the carrier uses, or none.
QueriedAwbs == {Str(a) : a \in Awbs} \cup {Undef}

\* A snapshot pulled for a waybill no callback has reported yet.
PulledResponse == [tracking_data |-> Obj(Snapshot({"track", "activities"}, Str("Delivered")))]

InitQuery ==
    /\ ManagerInit /\ TrackingIdle /\ ShipmentIdle
    /\ EstimateIdle /\ DefaultPreference /\ HookIdle /\ FrontIdle /\ TokenConfigured

\* One handler fills the table, by callbacks and by pulls, until the query comes.
QueryNext ==
    \/ track.pc = "idle" /\ \E a \in Awbs : WebhookPost(1, PushPayload(a, FALSE))
    \/ track.pc = "idle" /\ \E a \in Awbs : SyncPost(1, a, PulledResponse)
    \/ ListShiprocketTrackings(1) /\ UNCHANGED hookVars
    \/ UpdateShiprocketTrackings(1) /\ UNCHANGED hookVars
    \/ CreateShiprocketTrackings(1) /\ UNCHANGED hookVars
    \/ \E actor \in Actors, awb \in QueriedAwbs : GetTracking(actor, awb)
    \/ \E lookup \in OrderLookups : RetrieveOrder(lookup)

SpecQuery == InitQuery /\ [][QueryNext]_vars

(***************************************************************************)
(* Failed carrier calls: what reaches the caller                           *)
(***************************************************************************)
\* An axios error: the status of its response (0: no response came), its code,
\* response.data.message ("": none) and whether response.data.errors is there.
AxiosFailure(status, code, says, fields) ==
    [status |-> status, code |-> code, says |-> says, fields |-> fields]

\* Errors without a response, by error.code.
ConnectionCodes == {"ECONNABORTED", "ENOTFOUND", "ECONNREFUSED", "ECONNRESET"}

FailureStatuses == {400, 401, 404, 405, 418, 422, 429, 500, 502, 503, 504}

Failures ==
    {AxiosFailure(0, code, "", FALSE) : code \in ConnectionCodes}
    \cup {AxiosFailure(status, "ERR_BAD_RESPONSE", says, fields) :
            status \in FailureStatuses,
            says \in {"", "already cancelled", "cannot cancel", "try later"},
            fields \in BOOLEAN}

\* What a call does with the failure: it throws an error of a type, or returns.
Throws(type, message) == [threw |-> TRUE, type |-> type, message |-> message]
Returns == [threw |-> FALSE]

\* handleError: the message of the error it throws
HandleErrorMessage(err) ==
    CASE err.status = 401 -> "Shiprocket authentication failed"
      [] err.status = 429 -> "Shiprocket rate limit exceeded"
      [] err.status = 405 -> "Invalid API method"
      [] err.status \in {500, 502, 503, 504} -> "Shiprocket server error"
      [] err.status \notin {400, 404, 422} /\ err.code = "ECONNABORTED" ->
           "Shiprocket request timed out"
      [] err.status \notin {400, 404, 422} /\ err.code \in {"ENOTFOUND", "ECONNREFUSED"} ->
           "Unable to connect to Shiprocket"
      [] OTHER -> IF err.fields THEN "Validation failed"
                  ELSE IF err.says # "" THEN err.says
                  ELSE "Request failed"

\* handleError(error, context): every branch throws
HandleErrorThrows(err) == Throws(HandleError(err.status), HandleErrorMessage(err))

\* getDeliveryEstimate: catch
EstimateCatch(err) ==
    Throws("INVALID_DATA",
           IF err.says # "" THEN err.says ELSE "Failed to get delivery estimate")

\* create: the .catch of the order request, then the outer catch
CreateCatch(err) ==
    IF err.fields THEN Throws("INVALID_DATA", "Shiprocket: field error")
    ELSE HandleErrorThrows(err)

\* cancel: catch. JSON.stringify of the absent body of an error without a
\* response is undefined, and undefined.toLowerCase() throws a TypeError.
CancelCatch(err) ==
    IF err.status = 0 THEN Throws("TypeError", "Cannot read properties of undefined")
    ELSE IF TreatedAsCancelled(CancelAnswer(err.status, err.says)) THEN Returns
    ELSE HandleErrorThrows(err)

\* getTrackingInfo: catch
TrackingCatch(err) == HandleErrorThrows(err)

\* The carrier calls, and handleError called on its own.
CarrierCalls == {"estimate", "create", "cancel", "tracking"}

Caught(call, err) ==
    CASE call = "estimate" -> EstimateCatch(err)
      [] call = "create" -> CreateCatch(err)
      [] call = "cancel" -> CancelCatch(err)
      [] call = "tracking" -> TrackingCatch(err)
      [] OTHER -> HandleErrorThrows(err)

\* The request of a carrier call fails and the call ends.
CarrierCallFails(call, err) ==
    /\ thrown' = [call |-> call, error |-> err, outcome |-> Caught(call, err)]
    /\ UNCHANGED <<managerVars, trackingVars, shipmentVars, estimateVars, hookVars,
                   limiterVars, track>>

InitFailure ==
    /\ ManagerInit /\ TrackingIdle /\ ShipmentIdle
    /\ EstimateIdle /\ DefaultPreference /\ HookIdle /\ FrontIdle /\ TokenConfigured

FailureNext ==
    \E call \in CarrierCalls \cup {"handleError"}, err \in Failures :
        CarrierCallFails(call, err)

SpecFailure == InitFailure /\ [][FailureNext]_vars

(***************************************************************************)
(* Properties of the rate limiter (checked under SpecLimiter)              *)
(***************************************************************************)
\* The step answers a request of client c.
Asked(c) == limited'.client = c

Tracked(c) == c \in DOMAIN requests

\* The request comes strictly inside, or strictly after, the window of c.
InsideWindow(c) == Tracked(c) /\ now - requests[c].windowStart < windowMs
AfterWindow(c) == Tracked(c) /\ now - requests[c].windowStart > windowMs

\* The accepted requests of c since instant t, among the latest ones.
AcceptedSince(c, t) == Cardinality({i \in DOMAIN recent[c] : recent[c][i] >= t})

StartsWindow(c) == limited'.allowed /\ requests'[c] = Entry(1, now)

C32_SlidingWindow ==
    \A c \in Clients :
        Len(recent[c]) = maxRequests + 1 =>
            recent[c][Len(recent[c])] - recent[c][1] >= windowMs

Rejected(c) == Asked(c) /\ ~limited'.allowed

CountsInRange ==
    \A c \in DOMAIN requests :
        requests[c].count >= 1 /\ requests[c].count <= maxRequests

\* C40: a request rejected by the limiter changes no limiter state, neither the
\* count nor the window start of any identity, and in every reachable state
\* each tracked identity's count is between 1 and maxRequests inclusive.
C40_RejectionChangesNothing ==
    [][/\ (\E c \in Clients : Rejected(c)) => requests' = requests
       /\ CountsInRange]_vars

\* C40, amended: a rejected request leaves the count and the window start of
\* every identity that stays tracked, its own included, as they were, and drops
\* only entries of other identities whose window has expired; each tracked
\* identity's count is between 1 and maxRequests inclusive.
C40_RejectionKeepsLiveEntries ==
    [][/\ \A c \in Clients : Rejected(c) =>
             /\ c \in DOMAIN requests'
             /\ \A d \in DOMAIN requests' : Tracked(d) /\ requests'[d] = requests[d]
             /\ \A d \in DOMAIN requests \ DOMAIN requests' :
                    now - requests[d].windowStart > windowMs
       /\ CountsInRange]_vars

\* A request was refused at the limit while the other client's expired entry
\* was swept.
C40_Witness ==
    /\ limited.client = "ip1" /\ ~limited.allowed
    /\ "ip1" \in DOMAIN requests /\ requests["ip1"].count = maxRequests
    /\ "ip2" \notin DOMAIN requests
    /\ Len(recent["ip2"]) > 0

(***************************************************************************)
(* Properties of the public tracking query (checked under SpecQuery)       *)
(***************************************************************************)
\* The query found a record linked to a host order and the lookup of that
\* order has ended.
Verified == track.pc = "done" /\ "lookup" \in DOMAIN track

\* The lookup gave the order and the order has a customer.
CustomerKnown == track.lookup.kind = "order" /\ track.lookup.customer_id.k = "str"

RequesterIsCustomer ==
    track.actor.k = "str" /\ track.actor.v = track.lookup.customer_id.v

Denied == ~track.answer.shown /\ track.answer.status # 200

\* C33: for a tracking record linked to a host order that has a known customer,
\* the public query returns the tracking fields only when the requester's
\* authenticated identity equals that customer; every other requester, an
\* unauthenticated one included, is denied and receives no tracking fields.
C33_OwnerOnly ==
    (Verified /\ CustomerKnown) =>
        /\ track.answer.shown => RequesterIsCustomer
        /\ ~RequesterIsCustomer => Denied /\ track.answer.status = 403

\* Another customer, authenticated, asked for the record and was refused.
C33_Witness ==
    /\ Verified /\ CustomerKnown
    /\ track.actor.k = "str" /\ track.actor.v = "cus_2"
    /\ track.answer.status = 403

\* C34: if the ownership verification of a linked record fails with any error,
\* the order reported as not found included, the public query denies access
\* and returns no tracking fields.
C34_FailureDenies ==
    (Verified /\ track.lookup.kind # "order") => Denied

(***************************************************************************)
(* Properties of failed carrier calls (checked under SpecFailure)          *)
(***************************************************************************)
\* A connection timeout: no response, code ECONNABORTED.
IsTimeout(err) == err.status = 0 /\ err.code = "ECONNABORTED"

\* C35: a connection timeout on any carrier call (delivery estimate, order
\* creation, cancellation, tracking pull) reaches the caller as the
\* Unavailable error kind, never as InvalidData or Unauthorized.
C35_TimeoutIsUnavailable ==
    (thrown.call \in CarrierCalls /\ IsTimeout(thrown.error)) =>
        thrown.outcome.threw /\ thrown.outcome.type = "UNEXPECTED_STATE"

\* The kind the taxonomy gives a failure: by status, and Unavailable for a
\* failure without a response.
Connectivity(err) ==
    err.status = 0 /\ err.code \in {"ECONNABORTED", "ENOTFOUND", "ECONNREFUSED"}

KindOf(err) ==
    CASE err.status = 401 -> "UNAUTHORIZED"
      [] err.status = 404 -> "NOT_FOUND"
      [] err.status = 429 -> "NOT_ALLOWED"
      [] err.status \in {400, 422} -> "INVALID_DATA"
      [] err.status \in {500, 502, 503, 504} \/ Connectivity(err) -> "UNEXPECTED_STATE"
      [] OTHER -> "any"

\* C37: handleError never returns normally and maps every carrier failure to
\* exactly one error kind: 401 to Unauthorized, 404 to NotFound, 429 to the
\* rate-limited kind, 400/422 to InvalidData, 500/502/503/504 and connectivity
\* failures to Unavailable; no two of these five groups share a kind.
C37_ErrorTaxonomy ==
    thrown.call = "handleError" =>
        /\ thrown.outcome.threw
        /\ thrown.outcome.type \in
              {"UNAUTHORIZED", "NOT_FOUND", "NOT_ALLOWED", "INVALID_DATA",
               "UNEXPECTED_STATE"}
        /\ KindOf(thrown.error) # "any" => thrown.outcome.type = KindOf(thrown.error)

\* handleError was given a 429 and threw the rate-limited kind.
C37_Witness ==
    /\ thrown.call = "handleError"
    /\ thrown.error.status = 429
    /\ thrown.outcome.type = "NOT_ALLOWED"

(***************************************************************************)
(* The refresh handle (checked under SpecManagerLive)                      *)
(***************************************************************************)
\* The continuation at the head of the microtask queue is that of the caller
\* that assigned the handle for exchange e.
OwnerResumesNext(e) ==
    /\ microtasks # << >>
    /\ owner[Head(microtasks)]
    /\ joined[Head(microtasks)] = e

\* The handle holds the exchange in flight and nothing else; once the exchange
\* has completed the handle is cleared by the first continuation that runs, so
\* at every turn of the event loop it is non-empty exactly while a login is in
\* flight.
HandleTracksExchange ==
    /\ tokenRefreshPromise = 0 => loginInFlight = {}
    /\ tokenRefreshPromise # 0 =>
          \/ loginInFlight = {tokenRefreshPromise} /\ ~Settled(tokenRefreshPromise)
          \/ /\ loginInFlight = {}
             /\ Settled(tokenRefreshPromise)
             /\ OwnerResumesNext(tokenRefreshPromise)
    /\ microtasks = << >> => (tokenRefreshPromise # 0 <=> loginInFlight # {})

\* The last exchange failed and its handle is gone.
LastRefreshFailed == loginCount > 0 /\ promise[loginCount].state = "rejected"

\* A caller that comes to wait for a token after a failed refresh waits on a new
\* exchange, whose login request is in flight.
NewLoginAfterFailure ==
    \A p \in Callers :
        (LastRefreshFailed /\ ~Suspended(p) /\ Suspended(p)') =>
            /\ loginCount' = loginCount + 1
            /\ joined'[p] = loginCount'
            /\ tokenRefreshPromise' = loginCount'
            /\ loginInFlight' = {loginCount'}
            /\ promise'[loginCount'].state = "pending"

\* C36: the refresh handle is non-empty exactly while a login exchange is in
\* flight; it is cleared after every completion, success or failure, so after a
\* failed refresh the next caller that needs a token starts a new exchange, and
\* every caller waiting on a refresh is released once the exchange completes.
C36_HandleLifecycle ==
    /\ [](HandleTracksExchange /\ NoLostWaiter)
    /\ [][NewLoginAfterFailure]_vars
    /\ \A p \in Callers :
          (Suspended(p) /\ Settled(joined[p])) ~> ~Suspended(p)

\* C36 witness: the first exchange failed, and a caller has started the second,
\* which is in flight and held by the handle.
C36_Witness ==
    /\ loginCount = 2
    /\ promise[1].state = "rejected"
    /\ tokenRefreshPromise = 2
    /\ loginInFlight = {2}
    /\ \E p \in Callers : Suspended(p) /\ owner[p] /\ joined[p] = 2

====
